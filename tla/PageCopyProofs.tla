--------------------------- MODULE PageCopyProofs ---------------------------
(***************************************************************************)
(* Theorems about PageCopy, for every number of pages and blocks.          *)
(*                                                                         *)
(* The counters and the chains of events of a copy agree with its blocks   *)
(* only together: a counter is exact because no read is counted twice, no  *)
(* read is counted twice because there is at most one chain of READ        *)
(* events, and a chain ends because the counters are exact.  Agrees is     *)
(* that agreement, of one entry with the reads, events and contents that   *)
(* belong to it.  StalledWait is what keeps a page in the list of those    *)
(* that stalled from being finished before it is called; StalledForOne,    *)
(* with OneQueue, is why no call to unstall drops one.                     *)
(*                                                                         *)
(* First come the types, then what each change of an entry does to Agrees, *)
(* then one lemma per action, and the theorems.                            *)
(***************************************************************************)
EXTENDS PageCopy, TLAPS, FiniteSetTheorems, SequenceTheorems

States == {"NOT_READ", "READING", "BUFFERED", "WRITTEN"}

\* The table of migrations is of the type TypeOK says.
TableTyped == Migrating \subseteq Pages /\ \A p \in Migrating : migrations[p] \in Entry

\* What a read of the memories is.
Reads == [page : Pages, block : Blocks, from : Mems, demand : BOOLEAN, partOfMigration : BOOLEAN]

-----------------------------------------------------------------------------
(* Operators *)

\* Every set of blocks that is not empty has a first one.
LEMMA FirstIs ==
    ASSUME NEW S \in SUBSET Blocks, S # {}
    PROVE  First(S) \in S /\ \A c \in S : First(S) <= c
<1>1. S \subseteq Nat
    BY PageCopyAssumption DEF Blocks
<1>2. PICK b \in S : \A c \in S : ~ (<<c, b>> \in OpToRel(<, Nat))
    BY <1>1, NatLessThanWellFounded, WFMin
<1>3. \A c \in S : b <= c
    <2>1. SUFFICES ASSUME NEW c \in S, ~ (b <= c)
                   PROVE  FALSE
        OBVIOUS
    <2>2. b \in Nat /\ c \in Nat /\ c < b
        BY <1>1, <2>1
    <2>3. <<c, b>> \in OpToRel(<, Nat)
        BY <2>2 DEF OpToRel
    <2> QED
        BY <1>2, <2>3
<1> QED
    BY <1>3 DEF First

\* The unsigned decrement is a number, and the one below unless it wraps around.
LEMMA DecIs ==
    ASSUME NEW n \in Nat
    PROVE  Dec(n) \in Nat /\ (n \in 1 .. NumBlocks => Dec(n) = n - 1)
<1>1. CounterModulus \in Nat /\ CounterModulus > NumBlocks /\ NumBlocks \in Nat
    BY PageCopyAssumption
<1>2. Dec(n) \in Nat
    BY <1>1 DEF Dec
<1>3. ASSUME n \in 1 .. NumBlocks PROVE Dec(n) = n - 1
    <2>1. n - 1 \in 0 .. CounterModulus - 1
        BY <1>1, <1>3
    <2> QED
        BY <2>1, <1>1 DEF Dec
<1> QED
    BY <1>2, <1>3

\* A new entry, and what is done to entries, keeps their type.
LEMMA NewEntryTyped ==
    ASSUME NEW src \in Mems, NEW dest \in Mems
    PROVE  NewEntry(src, dest) \in Entry
    BY PageCopyAssumption DEF NewEntry, Entry, Mems, Blocks

\* Starting the reads keeps the entry's type; all that it changes is the next block to read.
LEMMA ReadOnTyped ==
    ASSUME NEW e \in Entry
    PROVE  /\ ReadOn(e) \in Entry
           /\ \E n \in Nat \cup {-1} : ReadOn(e) = [e EXCEPT !.nextRead = n]
<1>1. CASE AtThreshold(e)
    <2>1. First(InState(e, "NOT_READ")) \in Nat
        <3>1. InState(e, "NOT_READ") \in SUBSET Blocks /\ InState(e, "NOT_READ") # {}
            BY <1>1 DEF AtThreshold, InState
        <3> QED
            BY <3>1, FirstIs, PageCopyAssumption DEF Blocks
    <2>2. e.nextRead \in Nat \cup {-1}
        BY DEF Entry
    <2> DEFINE n == e.nextRead + First(InState(e, "NOT_READ"))
    <2>3. n \in Nat \cup {-1}
        BY <2>1, <2>2
    <2>4. ReadOn(e) = [e EXCEPT !.nextRead = n]
        BY <1>1 DEF ReadOn
    <2> HIDE DEF n
    <2>5. [e EXCEPT !.nextRead = n] \in Entry
        BY <2>3 DEF Entry
    <2> QED
        BY <2>3, <2>4, <2>5
<1>2. CASE ~AtThreshold(e)
    <2>1. e = [e EXCEPT !.nextRead = e.nextRead] /\ e.nextRead \in Nat \cup {-1}
        BY DEF Entry
    <2> QED
        BY <1>2, <2>1 DEF ReadOn
<1> QED
    BY <1>1, <1>2

\* Starting the writes keeps it too; all that it changes is the next block to write.
LEMMA WriteOnTyped ==
    ASSUME NEW e \in Entry, NEW b \in Blocks
    PROVE  /\ WriteOn(e, b) \in Entry
           /\ WriteOn(e, b) = [e EXCEPT !.nextWrite = IF e.nextWrite = -1 THEN b ELSE e.nextWrite]
    BY DEF WriteOn, Entry

-----------------------------------------------------------------------------
(* What the actions are made of *)

\* An entry is put in the table.
LEMMA PutIs ==
    ASSUME NEW p \in Pages, NEW e \in Entry, TableTyped, migrations' = Put(p, e)
    PROVE  /\ TableTyped'
           /\ Migrating' = Migrating \cup {p} /\ migrations'[p] = e
           /\ \A q \in Migrating \ {p} : migrations'[q] = migrations[q]
    BY DEF Put, Migrating, TableTyped

\* An entry of the table is changed.
LEMMA ChangeIs ==
    ASSUME NEW p \in Migrating, NEW e \in Entry, TableTyped,
           migrations' = [migrations EXCEPT ![p] = e]
    PROVE  /\ TableTyped'
           /\ Migrating' = Migrating /\ migrations'[p] = e
           /\ \A q \in Migrating \ {p} : migrations'[q] = migrations[q]
    BY DEF Migrating, TableTyped

\* An entry is removed.
LEMMA WithoutIs ==
    ASSUME NEW p, TableTyped, migrations' = Without(p)
    PROVE  /\ TableTyped'
           /\ Migrating' = Migrating \ {p}
           /\ \A q \in Migrating \ {p} : migrations'[q] = migrations[q]
    BY DEF Without, Migrating, TableTyped

\* Events are added.
LEMMA AddEventsIs ==
    ASSUME TypeOK, NEW new, AddEvents(new)
    PROVE  /\ events' \in [Kinds \X Pages -> Nat]
           /\ \A k \in Kinds, q \in Pages :
                  events'[<<k, q>>] = events[<<k, q>>] + IF <<k, q>> \in new THEN 1 ELSE 0
<1>1. events \in [Kinds \X Pages -> Nat]
    BY DEF TypeOK
<1>2. events' = [kp \in Kinds \X Pages |-> IF kp \in new THEN events[kp] + 1 ELSE events[kp]]
    BY <1>1 DEF AddEvents
<1> QED
    BY <1>1, <1>2

\* An event is taken, and others are added.
LEMMA TakeEventIs ==
    ASSUME TypeOK, NEW k \in Kinds, NEW p \in Pages, Pending(k, p), NEW new, TakeEvent(<<k, p>>, new)
    PROVE  /\ events' \in [Kinds \X Pages -> Nat]
           /\ events[<<k, p>>] \in Nat \ {0}
           /\ \A j \in Kinds, q \in Pages :
                  events'[<<j, q>>] = events[<<j, q>>] - (IF j = k /\ q = p THEN 1 ELSE 0)
                                          + IF <<j, q>> \in new THEN 1 ELSE 0
<1>1. events \in [Kinds \X Pages -> Nat] /\ <<k, p>> \in Kinds \X Pages /\ events[<<k, p>>] > 0
    BY DEF TypeOK, Pending
<1>2. events' = [j \in Kinds \X Pages |->
                    events[j] - (IF j = <<k, p>> THEN 1 ELSE 0) + (IF j \in new THEN 1 ELSE 0)]
    BY <1>1 DEF TakeEvent
<1>3. \A j \in Kinds \X Pages : events'[j] \in Nat
    BY <1>1, <1>2
<1> QED
    BY <1>1, <1>2, <1>3

\* A read is one.
LEMMA ReadTyped ==
    ASSUME NEW p \in Pages, NEW b \in Blocks, NEW m \in Mems,
           NEW demand \in BOOLEAN, NEW partOfMigration \in BOOLEAN
    PROVE  Read(p, b, m, demand, partOfMigration) \in Reads
    BY DEF Read, Reads

\* What is said of the memories' queues keeps its type.
MemTyped == stalledCallers \subseteq Mems /\ full \subseteq MayFill /\ registered \subseteq Mems

\* A memory takes a request, turns a cache away, or makes the copy wait.
LEMMA MemTypedKept ==
    ASSUME TypeOK, NEW m \in Mems
    PROVE  /\ MemTyped
           /\ Take(m) /\ UNCHANGED <<stalledCallers, registered>> => MemTyped' /\ full \subseteq full'
           /\ Refuse(m) => MemTyped' /\ full' = full /\ registered \subseteq registered'
           /\ Stall(m) => MemTyped' /\ full' = full /\ registered' = registered \cup {m}
           /\ UNCHANGED memVars => MemTyped'
    BY DEF TypeOK, MemTyped, Take, Refuse, Stall, memVars

\* An entry is put back, or the copy is complete.
LEMMA PutOrCompleteTyped ==
    ASSUME TypeOK, NEW p \in Migrating, NEW e \in Entry, NEW rest \in SUBSET Reads,
           Complete(p, e, rest) \/ PutOrComplete(p, e, rest)
    PROVE  TableTyped' /\ reads' \subseteq Reads
<1>1. TableTyped /\ p \in Pages
    BY DEF TypeOK, TableTyped
<1>2. CASE Complete(p, e, rest)
    <2>1. CASE e.rolledBack
        <3>1. migrations' = Without(p)
              /\ reads' = {IF r.page = p /\ r.demand THEN [r EXCEPT !.partOfMigration = FALSE] ELSE r : r \in rest}
            BY <1>2, <2>1 DEF Complete
        <3>2. \A r \in rest : [r EXCEPT !.partOfMigration = FALSE] \in Reads
            BY DEF Reads
        <3> QED
            BY <1>1, <3>1, <3>2, WithoutIs
    <2>2. CASE ~e.rolledBack
        <3>1. [e EXCEPT !.copied = TRUE] \in Entry
            BY DEF Entry
        <3> QED
            BY <1>1, <1>2, <2>2, <3>1, PutIs DEF Complete
    <2> QED
        BY <2>1, <2>2
<1>3. CASE migrations' = Put(p, e) /\ reads' = rest
    BY <1>1, <1>3, PutIs
<1> QED
    BY <1>2, <1>3 DEF PutOrComplete

\* The contents of a block are copied.
LEMMA CopiedIs ==
    ASSUME TypeOK, NEW p \in Pages, NEW b \in Blocks,
           NEW from \in Mems \cup {"buffer"}, NEW to \in Mems \cup {"buffer"}, Copied(p, b, from, to)
    PROVE  /\ fresh' \in [Pages -> [Blocks -> SUBSET {"dram", "pcm", "buffer"}]]
           /\ fresh'[p] = [fresh[p] EXCEPT ![b] = IF from \in @ THEN @ \cup {to} ELSE @ \ {to}]
           /\ \A q \in Pages \ {p} : fresh'[q] = fresh[q]
    BY DEF TypeOK, Copied, Mems

\* A write leaves the contents with one holder.
LEMMA WrittenIs ==
    ASSUME TypeOK, NEW p \in Pages, NEW b \in Blocks, NEW m \in Mems \cup {"buffer"},
           fresh' = [fresh EXCEPT ![p][b] = {m}]
    PROVE  /\ fresh' \in [Pages -> [Blocks -> SUBSET {"dram", "pcm", "buffer"}]]
           /\ fresh'[p] = [fresh[p] EXCEPT ![b] = {m}]
           /\ \A q \in Pages \ {p} : fresh'[q] = fresh[q]
    BY DEF TypeOK, Mems

-----------------------------------------------------------------------------
(* The types *)

\* The parts of TypeOK that requests, events and answers change together.
LEMMA TypesFrom ==
    ASSUME TypeOK, TableTyped', events' \in [Kinds \X Pages -> Nat], reads' \subseteq Reads,
           notifications' \subseteq Pages \X Blocks, MemTyped',
           fresh' \in [Pages -> [Blocks -> SUBSET {"dram", "pcm", "buffer"}]],
           stalledOnRead' \in Seq(Pages), stalledOnWrite' \in Seq(Pages),
           accesses' \in 0 .. MaxAccesses,
           UNCHANGED setting, location' \in [Pages -> Mems],
           DOMAIN dirties' \subseteq Pages, \A p \in DOMAIN dirties' : dirties'[p] \subseteq Blocks
    PROVE  TypeOK'
    BY DEF TypeOK, TableTyped, Reads, MemTyped

\* What the type invariant says of each variable.
LEMMA TypesGive ==
    ASSUME TypeOK
    PROVE  /\ TableTyped /\ events \in [Kinds \X Pages -> Nat] /\ reads \subseteq Reads
           /\ notifications \subseteq Pages \X Blocks /\ MemTyped
           /\ fresh \in [Pages -> [Blocks -> SUBSET {"dram", "pcm", "buffer"}]]
           /\ stalledOnRead \in Seq(Pages) /\ stalledOnWrite \in Seq(Pages)
           /\ accesses \in 0 .. MaxAccesses
           /\ setting \in Settings /\ location \in [Pages -> Mems]
           /\ DOMAIN dirties \subseteq Pages /\ \A p \in DOMAIN dirties : dirties[p] \subseteq Blocks
    BY DEF TypeOK, TableTyped, Reads, MemTyped

\* A request for a page that is being copied.
LEMMA RequestMigratingTyped ==
    ASSUME TypeOK, NEW p \in Migrating, NEW b \in Blocks, accesses' \in 0 .. MaxAccesses,
           \/ ReadUnread(p, b) \/ ReadJoins(p, b) \/ ReadBuffered(p, b) \/ ReadWritten(p, b)
           \/ WriteUnread(p, b) \/ WriteOvertakes(p, b) \/ WriteBuffered(p, b) \/ WriteWritten(p, b)
    PROVE  TypeOK'
<1>0. /\ TableTyped /\ events \in [Kinds \X Pages -> Nat] /\ reads \subseteq Reads
      /\ notifications \subseteq Pages \X Blocks /\ MemTyped
      /\ fresh \in [Pages -> [Blocks -> SUBSET {"dram", "pcm", "buffer"}]]
      /\ stalledOnRead \in Seq(Pages) /\ stalledOnWrite \in Seq(Pages)
      /\ setting \in Settings /\ location \in [Pages -> Mems]
      /\ DOMAIN dirties \subseteq Pages /\ \A q \in DOMAIN dirties : dirties[q] \subseteq Blocks
    BY TypesGive
<1> USE <1>0
<1>1. p \in Pages /\ migrations[p] \in Entry /\ location[p] \in Mems /\ migrations[p].dest \in Mems
    BY <1>0 DEF TableTyped, Entry
<1>2. migrations[p].leftToRead \in Nat /\ Dec(migrations[p].leftToRead) \in Nat
    BY <1>1, DecIs DEF Entry
<1>3. CASE ReadUnread(p, b)
    <2> DEFINE e == [migrations[p] EXCEPT !.state[b] = "READING", !.leftToRead = Dec(@)]
    <2>1. e \in Entry
        BY <1>1, <1>2 DEF Entry
    <2> HIDE DEF e
    <2>2. ReadOn(e) \in Entry
        BY <2>1, ReadOnTyped
    <2>3. CASE Refuse(location[p]) /\ UNCHANGED migrations
        <3>1. TableTyped' /\ MemTyped'
            BY <2>3, <1>1, MemTypedKept DEF TableTyped, Migrating
        <3> QED
            BY <2>3, <3>1, TypesFrom DEF Refuse, placeVars, stallVars
    <2>4. CASE /\ Take(location[p])
               /\ migrations' = Put(p, ReadOn(e))
               /\ AddEvents(ReadOnEvent(p, e))
               /\ reads' = reads \cup {Read(p, b, location[p], TRUE, TRUE)}
               /\ UNCHANGED <<notifications, fresh, placeVars, stallVars, stalledCallers, registered>>
        <3>1. TableTyped'
            BY <2>4, <2>2, <1>1, PutIs
        <3>2. MemTyped'
            BY <2>4, <1>1, MemTypedKept
        <3>3. events' \in [Kinds \X Pages -> Nat]
            BY <2>4, AddEventsIs
        <3>4. reads' \subseteq Reads
            BY <2>4, <1>1, ReadTyped
        <3> QED
            BY <2>4, <3>1, <3>2, <3>3, <3>4, TypesFrom DEF placeVars, stallVars
    <2> QED
        BY <1>3, <2>3, <2>4 DEF ReadUnread, e
<1>4. CASE ReadJoins(p, b)
    <2> DEFINE e == [migrations[p] EXCEPT !.callers = @ \cup {b}]
    <2>1. e \in Entry /\ migrations' = [migrations EXCEPT ![p] = e]
        BY <1>1, <1>4 DEF Entry, ReadJoins
    <2>2. TableTyped'
        BY <2>1, ChangeIs
    <2> QED
        BY <1>1, <1>4, <2>2, MemTypedKept, TypesFrom DEF ReadJoins, placeVars, stallVars
<1>5. CASE ReadBuffered(p, b)
    <2>1. TableTyped'
        BY <1>5 DEF ReadBuffered, TableTyped, Migrating
    <2> QED
        BY <1>1, <1>5, <2>1, MemTypedKept, TypesFrom DEF ReadBuffered, placeVars, stallVars
<1>6. CASE ReadWritten(p, b)
    <2>1. TableTyped'
        BY <1>6 DEF ReadWritten, PassRead, TableTyped, Migrating
    <2>2. CASE Refuse(migrations[p].dest)
        BY <1>1, <2>1, <2>2, MemTypedKept, TypesFrom DEF Refuse, placeVars, stallVars
    <2>3. CASE /\ Take(migrations[p].dest)
               /\ reads' = reads \cup {Read(p, b, migrations[p].dest, TRUE, FALSE)}
               /\ UNCHANGED <<events, notifications, fresh, placeVars, stallVars, stalledCallers, registered>>
        <3>1. reads' \subseteq Reads
            BY <2>3, <1>1, ReadTyped
        <3>2. MemTyped'
            BY <2>3, <1>1, MemTypedKept
        <3> QED
            BY <2>1, <2>3, <3>1, <3>2, TypesFrom DEF placeVars, stallVars
    <2> QED
        BY <1>6, <2>2, <2>3 DEF ReadWritten, PassRead
<1>7. CASE WriteUnread(p, b)
    <2> DEFINE e == [migrations[p] EXCEPT !.state[b] = "BUFFERED", !.dirty[b] = TRUE,
                                          !.leftToRead = Dec(@), !.unread = @ \cup {b}]
    <2>1. e \in Entry
        BY <1>1, <1>2 DEF Entry
    <2>2. /\ migrations' = Put(p, WriteOn(ReadOn(e), b))
          /\ AddEvents(ReadOnEvent(p, e) \cup WriteOnEvent(p, e))
          /\ fresh' = [fresh EXCEPT ![p][b] = {"buffer"}]
          /\ UNCHANGED <<reads, notifications, placeVars, stallVars, memVars>>
        BY <1>7 DEF WriteUnread
    <2> HIDE DEF e
    <2>3. WriteOn(ReadOn(e), b) \in Entry
        BY <2>1, ReadOnTyped, WriteOnTyped
    <2>4. TableTyped'
        BY <2>2, <2>3, <1>1, PutIs
    <2>5. events' \in [Kinds \X Pages -> Nat]
        BY <2>2, AddEventsIs
    <2>6. fresh' \in [Pages -> [Blocks -> SUBSET {"dram", "pcm", "buffer"}]]
        BY <2>2, <1>1, WrittenIs
    <2> QED
        BY <2>2, <2>4, <2>5, <2>6, MemTypedKept, TypesFrom DEF placeVars, stallVars
<1>8. CASE WriteOvertakes(p, b)
    <2> DEFINE e == [migrations[p] EXCEPT !.state[b] = "BUFFERED", !.dirty[b] = TRUE,
                                          !.joined = @ \cup (migrations[p].callers \cap {b})]
    <2>1. e \in Entry
        BY <1>1 DEF Entry
    <2>2. /\ migrations' = Put(p, WriteOn(e, b))
          /\ AddEvents(WriteOnEvent(p, e))
          /\ fresh' = [fresh EXCEPT ![p][b] = {"buffer"}]
          /\ UNCHANGED <<reads, notifications, placeVars, stallVars, memVars>>
        BY <1>8 DEF WriteOvertakes
    <2> HIDE DEF e
    <2>3. WriteOn(e, b) \in Entry
        BY <2>1, WriteOnTyped
    <2>4. TableTyped'
        BY <2>2, <2>3, <1>1, PutIs
    <2>5. events' \in [Kinds \X Pages -> Nat]
        BY <2>2, AddEventsIs
    <2>6. fresh' \in [Pages -> [Blocks -> SUBSET {"dram", "pcm", "buffer"}]]
        BY <2>2, <1>1, WrittenIs
    <2> QED
        BY <2>2, <2>4, <2>5, <2>6, MemTypedKept, TypesFrom DEF placeVars, stallVars
<1>9. CASE WriteBuffered(p, b)
    <2> DEFINE e == [migrations[p] EXCEPT !.dirty[b] = TRUE]
    <2>1. e \in Entry /\ migrations' = [migrations EXCEPT ![p] = e]
        BY <1>1, <1>9 DEF Entry, WriteBuffered
    <2>2. TableTyped'
        BY <2>1, ChangeIs
    <2>3. fresh' \in [Pages -> [Blocks -> SUBSET {"dram", "pcm", "buffer"}]]
        BY <1>1, <1>9, WrittenIs DEF WriteBuffered
    <2> QED
        BY <1>9, <2>2, <2>3, MemTypedKept, TypesFrom DEF WriteBuffered, placeVars, stallVars
<1>10. CASE WriteWritten(p, b)
    <2> DEFINE e == [migrations[p] EXCEPT !.dirty[b] = TRUE]
               m == migrations[p].dest
    <2>1. CASE Refuse(m) /\ UNCHANGED migrations
        <3>1. TableTyped' /\ MemTyped'
            BY <2>1, <1>1, MemTypedKept DEF TableTyped, Migrating
        <3> QED
            BY <2>1, <3>1, TypesFrom DEF Refuse, placeVars, stallVars
    <2>2. CASE /\ Take(m)
               /\ migrations' = [migrations EXCEPT ![p].dirty[b] = TRUE]
               /\ fresh' = [fresh EXCEPT ![p][b] = {m}]
               /\ UNCHANGED <<events, reads, notifications, placeVars, stallVars, stalledCallers, registered>>
        <3>1. e \in Entry /\ migrations' = [migrations EXCEPT ![p] = e]
            BY <1>1, <2>2 DEF Entry
        <3>2. TableTyped'
            BY <3>1, ChangeIs
        <3>3. fresh' \in [Pages -> [Blocks -> SUBSET {"dram", "pcm", "buffer"}]]
            BY <1>1, <2>2, WrittenIs
        <3>4. MemTyped'
            BY <1>1, <2>2, MemTypedKept
        <3> QED
            BY <2>2, <3>2, <3>3, <3>4, TypesFrom DEF placeVars, stallVars
    <2> QED
        BY <1>10, <2>1, <2>2 DEF WriteWritten
<1> QED
    BY <1>3, <1>4, <1>5, <1>6, <1>7, <1>8, <1>9, <1>10

\* A request for a page that is not.
LEMMA RequestResidentTyped ==
    ASSUME TypeOK, NEW p \in Pages, NEW b \in Blocks, accesses' \in 0 .. MaxAccesses,
           \/ ReadResident(p, b) \/ ReadOnDemand(p, b)
           \/ WriteResident(p, b) \/ WriteOnDemand(p, b)
    PROVE  TypeOK'
<1>0. /\ TableTyped /\ events \in [Kinds \X Pages -> Nat] /\ reads \subseteq Reads
      /\ notifications \subseteq Pages \X Blocks /\ MemTyped
      /\ fresh \in [Pages -> [Blocks -> SUBSET {"dram", "pcm", "buffer"}]]
      /\ stalledOnRead \in Seq(Pages) /\ stalledOnWrite \in Seq(Pages)
      /\ setting \in Settings /\ location \in [Pages -> Mems]
      /\ DOMAIN dirties \subseteq Pages /\ \A q \in DOMAIN dirties : dirties[q] \subseteq Blocks
    BY TypesGive
<1> USE <1>0
<1>1. location[p] \in Mems /\ "pcm" \in Mems /\ "dram" \in Mems
    BY DEF Mems
<1>2. UNCHANGED migrations => TableTyped'
    BY DEF TableTyped, Migrating
<1> DEFINE new == NewEntry("pcm", "dram")
<1>3. new \in Entry /\ new.leftToRead \in Nat /\ Dec(new.leftToRead) \in Nat
    <2>1. new \in Entry
        BY <1>1, NewEntryTyped
    <2> HIDE DEF new
    <2>2. new.leftToRead \in Nat
        BY <2>1 DEF Entry
    <2> QED
        BY <2>1, <2>2, DecIs
<1>4. CASE ReadResident(p, b)
    <2>1. CASE Refuse(location[p]) /\ UNCHANGED migrations
        BY <1>1, <1>2, <2>1, MemTypedKept, TypesFrom DEF Refuse, placeVars, stallVars
    <2>2. CASE /\ Take(location[p])
               /\ reads' = reads \cup {Read(p, b, location[p], TRUE, FALSE)}
               /\ UNCHANGED <<events, notifications, fresh, placeVars, stallVars, stalledCallers, registered>>
               /\ UNCHANGED migrations
        <3>1. reads' \subseteq Reads
            BY <2>2, <1>1, ReadTyped
        <3>2. MemTyped'
            BY <2>2, <1>1, MemTypedKept
        <3> QED
            BY <1>2, <2>2, <3>1, <3>2, TypesFrom DEF placeVars, stallVars
    <2> QED
        BY <1>4, <2>1, <2>2 DEF ReadResident, PassRead
<1>5. CASE WriteResident(p, b)
    <2>1. CASE Refuse(location[p]) /\ UNCHANGED migrations
        BY <1>1, <1>2, <2>1, MemTypedKept, TypesFrom DEF Refuse, placeVars, stallVars
    <2>2. CASE /\ Take(location[p])
               /\ fresh' = [fresh EXCEPT ![p][b] = {location[p]}]
               /\ dirties' = IF location[p] = "dram" /\ p \in DOMAIN dirties
                             THEN [dirties EXCEPT ![p] = @ \cup {b}] ELSE dirties
               /\ UNCHANGED <<events, reads, notifications, setting, location, stallVars,
                              stalledCallers, registered>>
               /\ UNCHANGED migrations
        <3>1. DOMAIN dirties' \subseteq Pages /\ \A q \in DOMAIN dirties' : dirties'[q] \subseteq Blocks
            BY <2>2
        <3>2. fresh' \in [Pages -> [Blocks -> SUBSET {"dram", "pcm", "buffer"}]]
            BY <1>1, <2>2, WrittenIs
        <3>3. MemTyped'
            BY <2>2, <1>1, MemTypedKept
        <3> QED
            BY <1>2, <2>2, <3>1, <3>2, <3>3, TypesFrom DEF stallVars
    <2> QED
        BY <1>5, <2>1, <2>2 DEF WriteResident
<1>6. CASE ReadOnDemand(p, b)
    <2> DEFINE e == [new EXCEPT !.state[b] = "READING", !.leftToRead = Dec(@)]
    <2>1. \/ Refuse("pcm") /\ migrations' = Put(p, new)
          \/ /\ Take("pcm")
             /\ migrations' = Put(p, ReadOn(e))
             /\ AddEvents(ReadOnEvent(p, e))
             /\ reads' = reads \cup {Read(p, b, "pcm", TRUE, TRUE)}
             /\ UNCHANGED <<notifications, fresh, placeVars, stallVars, stalledCallers, registered>>
        BY <1>6 DEF ReadOnDemand
    <2> HIDE DEF new
    <2>2. e \in Entry
        BY <1>3 DEF Entry
    <2> HIDE DEF e
    <2>3. ReadOn(e) \in Entry
        BY <2>2, ReadOnTyped
    <2>4. CASE Refuse("pcm") /\ migrations' = Put(p, new)
        <3>1. TableTyped'
            BY <2>4, <1>3, PutIs
        <3>2. MemTyped'
            BY <2>4, <1>1, MemTypedKept
        <3> QED
            BY <2>4, <3>1, <3>2, TypesFrom DEF Refuse, placeVars, stallVars
    <2>5. CASE /\ Take("pcm")
               /\ migrations' = Put(p, ReadOn(e))
               /\ AddEvents(ReadOnEvent(p, e))
               /\ reads' = reads \cup {Read(p, b, "pcm", TRUE, TRUE)}
               /\ UNCHANGED <<notifications, fresh, placeVars, stallVars, stalledCallers, registered>>
        <3>1. TableTyped'
            BY <2>5, <2>3, PutIs
        <3>2. MemTyped'
            BY <2>5, <1>1, MemTypedKept
        <3>3. events' \in [Kinds \X Pages -> Nat]
            BY <2>5, AddEventsIs
        <3>4. reads' \subseteq Reads
            BY <2>5, <1>1, ReadTyped
        <3> QED
            BY <2>5, <3>1, <3>2, <3>3, <3>4, TypesFrom DEF placeVars, stallVars
    <2> QED
        BY <2>1, <2>4, <2>5
<1>7. CASE WriteOnDemand(p, b)
    <2> DEFINE e == [new EXCEPT !.state[b] = "BUFFERED", !.dirty[b] = TRUE,
                                !.leftToRead = Dec(@), !.unread = {b}]
    <2>1. /\ migrations' = Put(p, WriteOn(ReadOn(e), b))
          /\ AddEvents(ReadOnEvent(p, e) \cup WriteOnEvent(p, e))
          /\ fresh' = [fresh EXCEPT ![p][b] = {"buffer"}]
          /\ UNCHANGED <<reads, notifications, placeVars, stallVars, memVars>>
        BY <1>7 DEF WriteOnDemand
    <2> HIDE DEF new
    <2>2. e \in Entry
        BY <1>3 DEF Entry
    <2> HIDE DEF e
    <2>3. WriteOn(ReadOn(e), b) \in Entry
        BY <2>2, ReadOnTyped, WriteOnTyped
    <2>4. TableTyped'
        BY <2>1, <2>3, PutIs
    <2>5. events' \in [Kinds \X Pages -> Nat]
        BY <2>1, AddEventsIs
    <2>6. fresh' \in [Pages -> [Blocks -> SUBSET {"dram", "pcm", "buffer"}]]
        BY <2>1, WrittenIs
    <2> QED
        BY <1>1, <2>1, <2>4, <2>5, <2>6, MemTypedKept, TypesFrom DEF placeVars, stallVars
<1> QED
    BY <1>4, <1>5, <1>6, <1>7

\* The manager begins, ends or rolls back a copy.
LEMMA ManagerTyped ==
    ASSUME TypeOK, NEW p \in Pages, CopyPage(p) \/ CopyEvent(p) \/ Finish(p) \/ Rollback(p)
    PROVE  TypeOK'
<1>0. /\ TableTyped /\ events \in [Kinds \X Pages -> Nat] /\ reads \subseteq Reads
      /\ notifications \subseteq Pages \X Blocks /\ MemTyped
      /\ fresh \in [Pages -> [Blocks -> SUBSET {"dram", "pcm", "buffer"}]]
      /\ stalledOnRead \in Seq(Pages) /\ stalledOnWrite \in Seq(Pages)
      /\ accesses \in 0 .. MaxAccesses
      /\ setting \in Settings /\ location \in [Pages -> Mems]
      /\ DOMAIN dirties \subseteq Pages /\ \A q \in DOMAIN dirties : dirties[q] \subseteq Blocks
    BY TypesGive
<1> USE <1>0
<1>1. NumBlocks \in Nat /\ NumBlocks > 1 /\ "pcm" \in Mems /\ "dram" \in Mems
    BY PageCopyAssumption DEF Mems
<1>2. \A S \in SUBSET Blocks : Cardinality(S) \in Nat /\ Cardinality(S) <= NumBlocks
    <2>1. IsFiniteSet(Blocks) /\ Cardinality(Blocks) = NumBlocks
        BY <1>1, FS_Interval DEF Blocks
    <2> QED
        BY <2>1, FS_Subset, FS_CardinalityType
<1>3. \A m \in Mems : UNCHANGED memVars => MemTyped'
    BY MemTypedKept
<1>4. CASE CopyPage(p)
    <2> DEFINE elided == IF Elide /\ p \in DOMAIN dirties THEN dirties[p] ELSE {}
               new == NewEntry("dram", "pcm")
               next == IF elided = Blocks THEN -1 ELSE First(Blocks \ elided)
               left == new.leftToWrite - Cardinality(elided)
               state == [b \in Blocks |-> IF b \in elided THEN "WRITTEN" ELSE "NOT_READ"]
               e == [new EXCEPT !.state = state, !.leftToWrite = left, !.nextRead = next]
    <2>1. /\ migrations' = Put(p, e)
          /\ dirties' = [q \in DOMAIN dirties \ {p} |-> dirties[q]]
          /\ AddEvents({<<"READ", p>>})
          /\ UNCHANGED <<setting, location, reads, notifications, fresh, accesses, stallVars, memVars>>
        BY <1>4 DEF CopyPage
    <2>2. elided \subseteq Blocks
        OBVIOUS
    <2>3. new \in Entry /\ new.leftToWrite = NumBlocks
        BY <1>1, NewEntryTyped DEF NewEntry
    <2>4. state \in [Blocks -> States]
        BY DEF States
    <2> HIDE DEF elided, new, state
    <2>5. left \in Nat
        <3>1. Cardinality(elided) \in Nat /\ Cardinality(elided) <= NumBlocks
            BY <1>2, <2>2
        <3> QED
            BY <1>1, <2>3, <3>1
    <2>6. next \in Nat \cup {-1}
        <3>1. CASE elided # Blocks
            <4>1. Blocks \ elided \in SUBSET Blocks /\ Blocks \ elided # {}
                BY <2>2, <3>1
            <4>2. First(Blocks \ elided) \in Blocks
                BY <4>1, FirstIs
            <4> QED
                BY <3>1, <4>2, <1>1 DEF Blocks
        <3> QED
            BY <3>1
    <2> HIDE DEF left, next
    <2>7. e \in Entry
        BY <2>3, <2>4, <2>5, <2>6 DEF Entry, States
    <2> HIDE DEF e
    <2>8. TableTyped'
        BY <2>1, <2>7, PutIs
    <2>9. events' \in [Kinds \X Pages -> Nat]
        BY <2>1, AddEventsIs
    <2> QED
        BY <1>1, <1>3, <2>1, <2>8, <2>9, TypesFrom DEF stallVars
<1>5. CASE CopyEvent(p)
    <2>1. /\ Pending("COPY", p) /\ p \in Migrating
          /\ TakeEvent(<<"COPY", p>>, {}) /\ Complete(p, migrations[p], reads)
          /\ UNCHANGED <<notifications, fresh, accesses, placeVars, stallVars, memVars>>
        BY <1>5 DEF CopyEvent
    <2>2. migrations[p] \in Entry
        BY <2>1 DEF TableTyped
    <2>3. TableTyped' /\ reads' \subseteq Reads
        BY <2>1, <2>2, PutOrCompleteTyped
    <2>4. "COPY" \in Kinds
        BY DEF Kinds
    <2>5. events' \in [Kinds \X Pages -> Nat]
        BY <2>1, <2>4, TakeEventIs
    <2> QED
        BY <1>1, <1>3, <2>1, <2>3, <2>5, TypesFrom DEF placeVars, stallVars
<1>6. CASE Finish(p)
    <2>1. /\ p \in Migrating
          /\ location' = [location EXCEPT ![p] = migrations[p].dest]
          /\ dirties' = IF migrations[p].dest = "dram"
                        THEN [q \in DOMAIN dirties \cup {p} |->
                                 IF q = p THEN {b \in Blocks : migrations[p].dirty[b]} ELSE dirties[q]]
                        ELSE dirties
          /\ migrations' = Without(p)
          /\ UNCHANGED <<setting, events, reads, notifications, fresh, accesses, stallVars, memVars>>
        BY <1>6 DEF Finish
    <2>2. migrations[p].dest \in Mems
        BY <2>1 DEF TableTyped, Entry
    <2>3. location' \in [Pages -> Mems]
        BY <2>1, <2>2
    <2>4. DOMAIN dirties' \subseteq Pages /\ \A q \in DOMAIN dirties' : dirties'[q] \subseteq Blocks
        BY <2>1
    <2>5. TableTyped'
        BY <2>1, WithoutIs
    <2> QED
        BY <1>1, <1>3, <2>1, <2>3, <2>4, <2>5, TypesFrom DEF stallVars
<1>7. CASE Rollback(p)
    <2> DEFINE old == migrations[p]
               toRead == {b \in InState(old, "WRITTEN") : old.dirty[b]}
               buffered == {b \in InState(old, "BUFFERED") : old.dirty[b]}
               chain == IF toRead # {} THEN {<<"READ", p>>} ELSE {}
               writing == IF buffered # {} /\ old.nextWrite = -1 THEN {<<"WRITE", p>>} ELSE {}
               state == [b \in Blocks |-> IF b \in toRead THEN "NOT_READ"
                                          ELSE IF b \in buffered THEN "BUFFERED" ELSE "WRITTEN"]
               nextRead == IF toRead = {} THEN old.nextRead ELSE First(toRead)
               nextWrite == IF toRead \cup buffered = {} THEN old.nextWrite
                            ELSE IF buffered = {} THEN -1 ELSE First(buffered)
               new == IF toRead \cup buffered = {} THEN {<<"COPY", p>>} ELSE chain \cup writing
               size == Cardinality(toRead)
               both == Cardinality(toRead \cup buffered)
               e == [old EXCEPT !.src = "dram", !.dest = "pcm", !.rolledBack = TRUE, !.unread = {},
                         !.state = state, !.leftToRead = size, !.leftToCompleteRead = size,
                         !.leftToWrite = both, !.nextRead = nextRead, !.nextWrite = nextWrite]
    <2>1. /\ p \in Migrating
          /\ migrations' = Put(p, e)
          /\ AddEvents(new)
          /\ UNCHANGED <<reads, notifications, fresh, accesses, placeVars, stallVars, memVars>>
        BY <1>7 DEF Rollback
    <2>2. old \in Entry
        BY <2>1 DEF TableTyped
    <2>3. toRead \subseteq Blocks /\ buffered \subseteq Blocks
        BY DEF InState
    <2>4. state \in [Blocks -> States]
        BY DEF States
    <2> HIDE DEF toRead, buffered, old, state, new
    <2>5. size \in Nat /\ both \in Nat
        BY <1>2, <2>3
    <2>6. nextRead \in Nat \cup {-1}
        <3>1. CASE toRead # {}
            <4>1. First(toRead) \in Blocks
                BY <2>3, <3>1, FirstIs
            <4> QED
                BY <1>1, <3>1, <4>1 DEF Blocks
        <3>2. CASE toRead = {}
            BY <2>2, <3>2 DEF Entry
        <3> QED
            BY <3>1, <3>2
    <2>7. nextWrite \in Blocks \cup {-1}
        <3>1. CASE buffered # {}
            BY <2>3, <3>1, FirstIs
        <3>2. CASE buffered = {}
            BY <2>2, <3>2 DEF Entry
        <3> QED
            BY <3>1, <3>2
    <2> HIDE DEF size, both, nextRead, nextWrite
    <2>8. e \in Entry
        BY <1>1, <2>2, <2>4, <2>5, <2>6, <2>7 DEF Entry, States
    <2> HIDE DEF e
    <2>9. TableTyped'
        BY <2>1, <2>8, PutIs
    <2>10. events' \in [Kinds \X Pages -> Nat]
        BY <2>1, AddEventsIs
    <2> QED
        BY <1>1, <1>3, <2>1, <2>9, <2>10, TypesFrom DEF placeVars, stallVars
<1> QED
    BY <1>4, <1>5, <1>6, <1>7

\* The events of a copy, and the answers.
LEMMA EventTyped ==
    ASSUME TypeOK, NEW p \in Pages, ReadEvent(p) \/ WriteEvent(p)
    PROVE  TypeOK'
<1>0. /\ TableTyped /\ events \in [Kinds \X Pages -> Nat] /\ reads \subseteq Reads
      /\ notifications \subseteq Pages \X Blocks /\ MemTyped
      /\ fresh \in [Pages -> [Blocks -> SUBSET {"dram", "pcm", "buffer"}]]
      /\ stalledOnRead \in Seq(Pages) /\ stalledOnWrite \in Seq(Pages)
      /\ accesses \in 0 .. MaxAccesses
      /\ setting \in Settings /\ location \in [Pages -> Mems]
      /\ DOMAIN dirties \subseteq Pages /\ \A q \in DOMAIN dirties : dirties[q] \subseteq Blocks
    BY TypesGive
<1> USE <1>0
<1> DEFINE old == migrations[p]
<1>1. p \in Migrating /\ old \in Entry
    BY DEF ReadEvent, WriteEvent, TableTyped
<1>2. "READ" \in Kinds /\ "WRITE" \in Kinds
    BY DEF Kinds
<1>3. \A n \in Nat : Dec(n) \in Nat
    BY DecIs
<1>4. /\ Append(stalledOnRead, p) \in Seq(Pages) /\ Append(stalledOnWrite, p) \in Seq(Pages)
      /\ old.src \in Mems /\ old.dest \in Mems
    BY <1>1, AppendProperties DEF Entry
<1>5. CASE ReadEvent(p)
    <2> DEFINE from == {b \in InState(old, "NOT_READ") : b >= old.nextRead}
               b == First(from)
               e == [old EXCEPT !.state[b] = "READING", !.leftToRead = Dec(@)]
               left == InState(e, "NOT_READ")
               next == IF left = {} THEN b ELSE First(left)
               f == [e EXCEPT !.nextRead = next]
    <2>1. /\ Pending("READ", p)
          /\ UNCHANGED <<notifications, fresh, accesses, placeVars>>
          /\ \/ /\ TakeEvent(<<"READ", p>>, {})
                /\ UNCHANGED <<migrations, reads, stallVars, memVars>>
             \/ /\ migrations' = [migrations EXCEPT ![p].nextRead = NumBlocks]
                /\ TakeEvent(<<"READ", p>>, {})
                /\ UNCHANGED <<reads, stallVars, memVars>>
             \/ /\ from # {}
                /\ Take(old.src)
                /\ migrations' = Put(p, f)
                /\ reads' = reads \cup {Read(p, b, old.src, FALSE, TRUE)}
                /\ TakeEvent(<<"READ", p>>, IF left = {} THEN {} ELSE {<<"READ", p>>})
                /\ UNCHANGED <<stallVars, stalledCallers, registered>>
             \/ /\ from # {}
                /\ IF stalledOnRead = <<>> THEN Stall(old.src) ELSE UNCHANGED memVars
                /\ migrations' = [migrations EXCEPT ![p].nextRead = b]
                /\ stalledOnRead' = Append(stalledOnRead, p)
                /\ TakeEvent(<<"READ", p>>, {})
                /\ UNCHANGED <<reads, stalledOnWrite>>
        BY <1>5 DEF ReadEvent
    <2>2. events' \in [Kinds \X Pages -> Nat]
        BY <1>2, <2>1, TakeEventIs
    <2>3. from # {} => b \in Blocks /\ b \in Nat
        <3>1. from \in SUBSET Blocks
            BY DEF InState
        <3>2. from # {} => b \in Blocks
            BY <3>1, FirstIs
        <3> QED
            BY <3>2, PageCopyAssumption DEF Blocks
    <2>4. from # {} => f \in Entry
        <3>1. SUFFICES ASSUME from # {} PROVE f \in Entry
            OBVIOUS
        <3>2. old.leftToRead \in Nat
            BY <1>1 DEF Entry
        <3> HIDE DEF from, b, old
        <3>3. e \in Entry
            BY <1>1, <1>3, <2>3, <3>1, <3>2 DEF Entry
        <3>4. next \in Nat
            <4> HIDE DEF e
            <4>1. left \in SUBSET Blocks
                BY DEF InState
            <4>2. left # {} => First(left) \in Blocks
                BY <4>1, FirstIs
            <4> QED
                BY <2>3, <3>1, <4>2, PageCopyAssumption DEF Blocks
        <3> HIDE DEF e, next
        <3> QED
            BY <3>3, <3>4 DEF Entry
    <2>5. \A n \in Nat : migrations' = [migrations EXCEPT ![p].nextRead = n] => TableTyped'
        <3>1. SUFFICES ASSUME NEW n \in Nat, migrations' = [migrations EXCEPT ![p].nextRead = n]
                       PROVE  TableTyped'
            OBVIOUS
        <3>2. [old EXCEPT !.nextRead = n] \in Entry
            BY <1>1 DEF Entry
        <3> QED
            BY <1>1, <3>1, <3>2, ChangeIs
    <2>6. UNCHANGED migrations => TableTyped'
        BY DEF TableTyped, Migrating
    <2>7. NumBlocks \in Nat
        BY PageCopyAssumption
    <2> HIDE DEF from, b, f, left, old
    <2>8. CASE UNCHANGED <<migrations, reads, stallVars, memVars>>
        BY <1>4, <2>1, <2>2, <2>6, <2>8, MemTypedKept, TypesFrom DEF placeVars, stallVars
    <2>9. CASE /\ migrations' = [migrations EXCEPT ![p].nextRead = NumBlocks]
               /\ UNCHANGED <<reads, stallVars, memVars>>
        BY <1>4, <2>1, <2>2, <2>5, <2>7, <2>9, MemTypedKept, TypesFrom DEF placeVars, stallVars
    <2>10. CASE /\ from # {}
                /\ Take(old.src)
                /\ migrations' = Put(p, f)
                /\ reads' = reads \cup {Read(p, b, old.src, FALSE, TRUE)}
                /\ UNCHANGED <<stallVars, stalledCallers, registered>>
        <3>1. TableTyped'
            BY <2>4, <2>10, PutIs
        <3>2. reads' \subseteq Reads
            BY <1>4, <2>3, <2>10, ReadTyped
        <3>3. MemTyped'
            BY <1>4, <2>10, MemTypedKept
        <3> QED
            BY <2>1, <2>2, <2>10, <3>1, <3>2, <3>3, TypesFrom DEF placeVars, stallVars
    <2>11. CASE /\ from # {}
                /\ IF stalledOnRead = <<>> THEN Stall(old.src) ELSE UNCHANGED memVars
                /\ migrations' = [migrations EXCEPT ![p].nextRead = b]
                /\ stalledOnRead' = Append(stalledOnRead, p)
                /\ UNCHANGED <<reads, stalledOnWrite>>
        <3>1. TableTyped'
            BY <2>3, <2>5, <2>11
        <3>2. MemTyped'
            BY <1>4, <2>11, MemTypedKept
        <3> QED
            BY <1>4, <2>1, <2>2, <2>11, <3>1, <3>2, TypesFrom DEF placeVars
    <2> QED
        BY <2>1, <2>8, <2>9, <2>10, <2>11
<1>6. CASE WriteEvent(p)
    <2> DEFINE b == old.nextWrite
               e == [old EXCEPT !.state[b] = "WRITTEN", !.leftToWrite = Dec(@)]
               left == InState(e, "BUFFERED")
               goesOn == e.leftToWrite > 0 /\ left # {}
               next == IF e.leftToWrite = 0 THEN b ELSE IF left = {} THEN -1 ELSE First(left)
               f == [e EXCEPT !.nextWrite = next]
               more == IF goesOn THEN {<<"WRITE", p>>} ELSE {}
    <2>1. /\ Pending("WRITE", p)
          /\ UNCHANGED <<notifications, accesses, placeVars>>
          /\ \/ /\ TakeEvent(<<"WRITE", p>>, {})
                /\ UNCHANGED <<migrations, reads, fresh, stallVars, memVars>>
             \/ /\ b # -1
                /\ Take(old.dest)
                /\ Copied(p, b, "buffer", old.dest)
                /\ PutOrComplete(p, f, reads)
                /\ TakeEvent(<<"WRITE", p>>, more)
                /\ UNCHANGED <<stallVars, stalledCallers, registered>>
             \/ /\ IF stalledOnWrite = <<>> THEN Stall(old.dest) ELSE UNCHANGED memVars
                /\ stalledOnWrite' = Append(stalledOnWrite, p)
                /\ TakeEvent(<<"WRITE", p>>, {})
                /\ UNCHANGED <<migrations, reads, fresh, stalledOnRead>>
        BY <1>6 DEF WriteEvent
    <2>2. events' \in [Kinds \X Pages -> Nat]
        BY <1>2, <2>1, TakeEventIs
    <2>3. b # -1 => b \in Blocks
        BY <1>1 DEF Entry
    <2>4. b # -1 => f \in Entry
        <3>1. SUFFICES ASSUME b # -1 PROVE f \in Entry
            OBVIOUS
        <3>2. old.leftToWrite \in Nat
            BY <1>1 DEF Entry
        <3> HIDE DEF b, old
        <3>3. e \in Entry
            BY <1>1, <1>3, <2>3, <3>1, <3>2 DEF Entry
        <3>4. next \in Blocks \cup {-1}
            <4> HIDE DEF e
            <4>1. left \in SUBSET Blocks
                BY DEF InState
            <4> QED
                BY <2>3, <3>1, <4>1, FirstIs
        <3> HIDE DEF e, next
        <3> QED
            BY <3>3, <3>4 DEF Entry
    <2>5. UNCHANGED migrations => TableTyped'
        BY DEF TableTyped, Migrating
    <2> HIDE DEF b, f, more, old
    <2>6. CASE UNCHANGED <<migrations, reads, fresh, stallVars, memVars>>
        BY <1>4, <2>1, <2>2, <2>5, <2>6, MemTypedKept, TypesFrom DEF placeVars, stallVars
    <2>7. CASE /\ b # -1
               /\ Take(old.dest)
               /\ Copied(p, b, "buffer", old.dest)
               /\ PutOrComplete(p, f, reads)
               /\ UNCHANGED <<stallVars, stalledCallers, registered>>
        <3>1. TableTyped' /\ reads' \subseteq Reads
            BY <1>1, <2>4, <2>7, PutOrCompleteTyped
        <3>2. fresh' \in [Pages -> [Blocks -> SUBSET {"dram", "pcm", "buffer"}]]
            BY <1>4, <2>3, <2>7, CopiedIs
        <3>3. MemTyped'
            BY <1>4, <2>7, MemTypedKept
        <3> QED
            BY <2>1, <2>2, <2>7, <3>1, <3>2, <3>3, TypesFrom DEF placeVars, stallVars
    <2>8. CASE /\ IF stalledOnWrite = <<>> THEN Stall(old.dest) ELSE UNCHANGED memVars
               /\ stalledOnWrite' = Append(stalledOnWrite, p)
               /\ UNCHANGED <<migrations, reads, fresh, stalledOnRead>>
        <3>1. MemTyped'
            BY <1>4, <2>8, MemTypedKept
        <3> QED
            BY <1>4, <2>1, <2>2, <2>5, <2>8, <3>1, TypesFrom DEF placeVars
    <2> QED
        BY <2>1, <2>6, <2>7, <2>8
<1> QED
    BY <1>5, <1>6

\* The answers of the memories and of the buffer keep the types.
LEMMA AnswerTyped ==
    ASSUME TypeOK, NEW r \in reads, ReadReturns(r)
    PROVE  TypeOK'
<1>0. /\ TableTyped /\ events \in [Kinds \X Pages -> Nat] /\ reads \subseteq Reads
      /\ notifications \subseteq Pages \X Blocks /\ MemTyped
      /\ fresh \in [Pages -> [Blocks -> SUBSET {"dram", "pcm", "buffer"}]]
      /\ stalledOnRead \in Seq(Pages) /\ stalledOnWrite \in Seq(Pages)
      /\ accesses \in 0 .. MaxAccesses
      /\ setting \in Settings /\ location \in [Pages -> Mems]
      /\ DOMAIN dirties \subseteq Pages /\ \A q \in DOMAIN dirties : dirties[q] \subseteq Blocks
    BY TypesGive
<1> USE <1>0
<1> DEFINE p == r.page
           b == r.block
           old == migrations[p]
           counted == [old EXCEPT !.leftToCompleteRead = Dec(@)]
           buffered == [counted EXCEPT !.state[b] = "BUFFERED"]
           kept == IF old.state[b] = "WRITTEN" /\ old.rolledBack THEN CallBack(counted, b) ELSE counted
           rest == reads \ {r}
<1>1. p \in Pages /\ b \in Blocks /\ r.from \in Mems /\ rest \in SUBSET Reads
    BY DEF Reads
<1>2. /\ UNCHANGED <<notifications, accesses, placeVars, stallVars, memVars>>
      /\ \/ reads' = rest /\ UNCHANGED <<migrations, events, fresh>>
         \/ /\ p \in Migrating
            /\ PutOrComplete(p, WriteOn(CallBack(buffered, b), b), rest)
            /\ AddEvents(WriteOnEvent(p, old))
            /\ Copied(p, b, r.from, "buffer")
         \/ /\ p \in Migrating
            /\ PutOrComplete(p, kept, rest)
            /\ UNCHANGED <<events, fresh>>
    BY DEF ReadReturns
<1>3. p \in Migrating => counted \in Entry
    <2>1. SUFFICES ASSUME p \in Migrating PROVE counted \in Entry
        OBVIOUS
    <2>2. old \in Entry
        BY <2>1 DEF TableTyped
    <2>3. old.leftToCompleteRead \in Nat
        BY <2>2 DEF Entry
    <2>4. Dec(old.leftToCompleteRead) \in Nat
        BY <2>3, DecIs
    <2> QED
        BY <2>2, <2>4 DEF Entry
<1> HIDE DEF p, b, old, rest, counted
<1>4. p \in Migrating => kept \in Entry
    BY <1>1, <1>3 DEF CallBack, Entry
<1>5. p \in Migrating => WriteOn(CallBack(buffered, b), b) \in Entry
    <2>1. p \in Migrating => CallBack(buffered, b) \in Entry
        BY <1>1, <1>3 DEF CallBack, Entry
    <2> QED
        BY <1>1, <2>1, WriteOnTyped
<1> HIDE DEF kept, buffered
<1>6. MemTyped'
    BY <1>1, <1>2, MemTypedKept
<1>7. CASE reads' = rest /\ UNCHANGED <<migrations, events, fresh>>
    <2>1. TableTyped'
        BY <1>7 DEF TableTyped, Migrating
    <2> QED
        BY <1>1, <1>2, <1>6, <1>7, <2>1, TypesFrom DEF placeVars, stallVars
<1>8. CASE /\ p \in Migrating
           /\ PutOrComplete(p, WriteOn(CallBack(buffered, b), b), rest)
           /\ AddEvents(WriteOnEvent(p, old))
           /\ Copied(p, b, r.from, "buffer")
    <2>1. TableTyped' /\ reads' \subseteq Reads
        BY <1>1, <1>5, <1>8, PutOrCompleteTyped
    <2>2. events' \in [Kinds \X Pages -> Nat]
        BY <1>8, AddEventsIs
    <2>3. fresh' \in [Pages -> [Blocks -> SUBSET {"dram", "pcm", "buffer"}]]
        BY <1>1, <1>8, CopiedIs
    <2> QED
        BY <1>2, <1>6, <2>1, <2>2, <2>3, TypesFrom DEF placeVars, stallVars
<1>9. CASE /\ p \in Migrating
           /\ PutOrComplete(p, kept, rest)
           /\ UNCHANGED <<events, fresh>>
    <2>1. TableTyped' /\ reads' \subseteq Reads
        BY <1>1, <1>4, <1>9, PutOrCompleteTyped
    <2> QED
        BY <1>2, <1>6, <1>9, <2>1, TypesFrom DEF placeVars, stallVars
<1> QED
    BY <1>2, <1>7, <1>8, <1>9

\* The number of times a page is in a list of stalled copies.
LEMMA OccurrencesFinite ==
    ASSUME NEW s \in Seq(Pages), NEW p
    PROVE  Occurrences(s, p) \in Nat
<1>1. DOMAIN s = 1 .. Len(s) /\ Len(s) \in Nat
    BY LenProperties
<1>2. IsFiniteSet(1 .. Len(s)) /\ {i \in DOMAIN s : s[i] = p} \in SUBSET (1 .. Len(s))
    BY <1>1, FS_Interval
<1>3. IsFiniteSet({i \in DOMAIN s : s[i] = p})
    BY <1>2, FS_Subset
<1> QED
    BY <1>3, FS_CardinalityType DEF Occurrences

\* What unstall adds to the events.
Retried(k, q, m) ==
    IF k = "READ" /\ Contains(stalledOnRead, q)
    THEN IF migrations[q].src = m THEN Occurrences(stalledOnRead, q) ELSE 0
    ELSE IF k = "WRITE" /\ Contains(stalledOnWrite, q)
    THEN IF migrations[q].dest = m THEN Occurrences(stalledOnWrite, q) ELSE 0
    ELSE 0

\* The events after unstall: those that are retried are added.
LEMMA MemoryDrainsIs ==
    ASSUME TypeOK, NEW m \in Mems, MemoryDrains(m), m \in registered
    PROVE  /\ events' \in [Kinds \X Pages -> Nat]
           /\ \A k \in Kinds, q \in Pages :
                  events'[<<k, q>>] = events[<<k, q>>] + Retried(k, q, m)
<1>1. events \in [Kinds \X Pages -> Nat] /\ stalledOnRead \in Seq(Pages) /\ stalledOnWrite \in Seq(Pages)
    BY DEF TypeOK
<1>2. \A k \in Kinds, q \in Pages : Retried(k, q, m) \in Nat
    BY <1>1, OccurrencesFinite DEF Retried
<1>3. events' = [kp \in Kinds \X Pages |-> events[kp] +
                   CASE kp[1] = "READ" /\ Contains(stalledOnRead, kp[2]) ->
                            IF migrations[kp[2]].src = m THEN Occurrences(stalledOnRead, kp[2]) ELSE 0
                     [] kp[1] = "WRITE" /\ Contains(stalledOnWrite, kp[2]) ->
                            IF migrations[kp[2]].dest = m THEN Occurrences(stalledOnWrite, kp[2]) ELSE 0
                     [] OTHER -> 0]
    BY <1>1 DEF MemoryDrains
<1>4. events' = [kp \in Kinds \X Pages |-> events[kp] + Retried(kp[1], kp[2], m)]
    BY <1>3 DEF Retried
<1>5. \A kp \in Kinds \X Pages : events'[kp] = events[kp] + Retried(kp[1], kp[2], m)
    BY <1>4
<1>6. \A kp \in Kinds \X Pages : events'[kp] \in Nat
    <2>1. SUFFICES ASSUME NEW kp \in Kinds \X Pages PROVE events'[kp] \in Nat
        OBVIOUS
    <2>2. kp[1] \in Kinds /\ kp[2] \in Pages /\ events[kp] \in Nat
        BY <1>1
    <2> DEFINE n == Retried(kp[1], kp[2], m)
    <2>3. n \in Nat /\ events'[kp] = events[kp] + n
        BY <1>2, <1>5, <2>2
    <2> HIDE DEF n
    <2> QED
        BY <2>2, <2>3
<1> QED
    BY <1>4, <1>5, <1>6

\* A memory that has room keeps the types.
LEMMA DrainsTyped ==
    ASSUME TypeOK, NEW m \in Mems, MemoryDrains(m)
    PROVE  TypeOK'
<1>1. TableTyped'
    BY TypesGive DEF MemoryDrains, TableTyped, Migrating
<1>2. events' \in [Kinds \X Pages -> Nat]
    BY TypesGive, MemoryDrainsIs DEF MemoryDrains
<1>3. MemTyped'
    BY TypesGive DEF MemoryDrains, MemTyped
<1>4. stalledOnRead' \in Seq(Pages) /\ stalledOnWrite' \in Seq(Pages)
    BY TypesGive, EmptySeq DEF MemoryDrains, stallVars
<1>5. UNCHANGED <<reads, notifications, fresh, accesses, placeVars>>
    BY DEF MemoryDrains
<1> QED
    BY <1>1, <1>2, <1>3, <1>4, <1>5, TypesGive, TypesFrom DEF placeVars

\* TypeOK holds at the start and is kept by every step.
LEMMA TypeOKInit == Init => TypeOK
<1>1. Mems = {"dram", "pcm"} /\ <<>> \in Seq(Pages)
    BY EmptySeq DEF Mems
<1>2. Init => Migrating = {} /\ DOMAIN dirties = {}
    BY DEF Init, Migrating
<1>3. MaxAccesses \in Nat
    BY PageCopyAssumption
<1> QED
    BY <1>1, <1>2, <1>3 DEF Init, TypeOK

\* Every step keeps the types.
LEMMA TypeOKStep == TypeOK /\ [Next]_vars => TypeOK'
<1>1. SUFFICES ASSUME TypeOK, [Next]_vars PROVE TypeOK'
    OBVIOUS
<1>2. ASSUME NEW p \in Pages, NEW b \in Blocks, Access(p, b) PROVE TypeOK'
    <2>1. accesses' \in 0 .. MaxAccesses
        BY <1>1, <1>2, PageCopyAssumption DEF Access, TypeOK
    <2> QED
        BY <1>1, <1>2, <2>1, RequestMigratingTyped, RequestResidentTyped DEF Access
<1>3. ASSUME NEW p \in Pages, CopyPage(p) \/ Rollback(p) \/ CopyEvent(p) \/ Finish(p) PROVE TypeOK'
    BY <1>1, <1>3, ManagerTyped
<1>4. ASSUME NEW p \in Pages, ReadEvent(p) \/ WriteEvent(p) PROVE TypeOK'
    BY <1>1, <1>4, EventTyped
<1>5. ASSUME NEW r \in reads, ReadReturns(r) PROVE TypeOK'
    BY <1>1, <1>5, AnswerTyped
<1>6. CASE Notify
    BY <1>1, <1>6 DEF Notify, TypeOK, Migrating, placeVars, stallVars, memVars
<1>7. ASSUME NEW m \in Mems, MemoryDrains(m) PROVE TypeOK'
    BY <1>1, <1>7, DrainsTyped
<1>8. CASE UNCHANGED vars
    BY <1>1, <1>8 DEF vars, TypeOK, Migrating, placeVars, stallVars, memVars
<1> QED
    BY <1>1, <1>2, <1>3, <1>4, <1>5, <1>6, <1>7, <1>8 DEF Next

-----------------------------------------------------------------------------
(* The invariant *)

\* Which memory an entry copies from, at being where its page is mapped.  What is rolled
\* back goes from DRAM to PCM although the page is in PCM.
Sides(e, at) ==
    /\ e.src # e.dest
    /\ IF e.rolledBack THEN e.src = "dram" /\ at = "pcm" /\ e.unread = {} /\ ~e.copied
       ELSE at = e.src /\ (e.src = "dram" => setting.threshold = 0)
    /\ e.copied => IsComplete(e)

\* The counters agree with the blocks and with the reads R of the copy.
Counts(e, R) ==
    /\ IsFiniteSet(R)
    /\ e.leftToRead = Cardinality(InState(e, "NOT_READ"))
    /\ e.leftToCompleteRead = e.leftToRead + Cardinality(R) + Cardinality(e.unread)
    /\ e.leftToCompleteRead <= NumBlocks
    /\ e.leftToWrite = NumBlocks - Cardinality(InState(e, "WRITTEN"))
    /\ \A b \in e.unread : e.state[b] # "NOT_READ"

\* The reads of the copy are of blocks that have been asked for, from the source.
Answers(e, R) == \A r \in R :
    /\ e.state[r.block] # "NOT_READ"
    /\ e.state[r.block] = "READING" => r.from = e.src

\* Where the contents are, F being who holds them block by block: what a copy has not
\* got yet is in the source, and PCM has what a promotion has left clean.
Held(e, F) == \A b \in Blocks :
    /\ e.state[b] \in {"NOT_READ", "READING"} => e.src \in F[b]
    /\ e.state[b] = "BUFFERED" => "buffer" \in F[b]
    /\ e.state[b] = "WRITTEN" => e.dest \in F[b]
    /\ e.dest = "dram" /\ ~e.dirty[b] => "pcm" \in F[b]

Body(e, R, F, at) == Sides(e, at) /\ Counts(e, R) /\ Answers(e, R) /\ Held(e, F)

\* The next block to read is not behind the first that is left.
ReadCursor(e) ==
    /\ e.nextRead \in Blocks
    /\ \A b \in InState(e, "NOT_READ") : e.nextRead <= b
    /\ e.src = "pcm" /\ e.leftToRead > setting.threshold => e.nextRead = 0

\* Where no unstall drops a copy: there is one page, and one memory that refuses
\* requests, or none does.  A promotion does not begin at the threshold.
OneQueue ==
    /\ \A p, q \in Pages, m, n \in MayFill : p = q /\ m = n
    /\ \A s \in Settings : s.threshold < NumBlocks

\* There is at most one chain of READ events, none before the threshold, and none
\* when all is read of what is rolled back.  With OneQueue there is one whenever the
\* copy reads by itself.
ReadLinked(e, n) ==
    /\ n \in {0, 1}
    /\ e.src = "pcm" /\ e.leftToRead > setting.threshold => n = 0
    /\ e.rolledBack /\ e.leftToRead = 0 => n = 0
    /\ OneQueue /\ e.leftToRead > 0 /\ (e.src = "dram" \/ e.leftToRead <= setting.threshold) => n = 1

\* The next block to write is buffered, if any is.
WriteCursor(e) ==
    IF InState(e, "BUFFERED") = {} THEN e.nextWrite = -1 \/ e.leftToWrite = 0
    ELSE e.nextWrite \in InState(e, "BUFFERED")

\* There is at most one chain of WRITE events, none with nothing buffered, and with
\* OneQueue one whenever something is.
WriteLinked(e, n) ==
    /\ n \in {0, 1}
    /\ InState(e, "BUFFERED") = {} => n = 0
    /\ OneQueue /\ InState(e, "BUFFERED") # {} => n = 1

\* The COPY event is for what is rolled back without having to be copied.
CopyLinked(e, n) == n \in {0, 1} /\ (n = 1 => e.rolledBack /\ IsComplete(e))

ReadChain(p) == events[<<"READ", p>>] + Occurrences(stalledOnRead, p)
WriteChain(p) == events[<<"WRITE", p>>] + Occurrences(stalledOnWrite, p)

EntryAgrees(p) ==
    LET e == migrations[p] IN
    /\ Body(e, CountedReads(p), fresh[p], location[p])
    /\ ReadCursor(e) /\ ReadLinked(e, ReadChain(p))
    /\ WriteCursor(e) /\ WriteLinked(e, WriteChain(p))
    /\ CopyLinked(e, events[<<"COPY", p>>])

\* Of a page that is not being copied there are neither reads nor events.
Resting(p) ==
    /\ CountedReads(p) = {}
    /\ ReadChain(p) = 0 /\ WriteChain(p) = 0 /\ events[<<"COPY", p>>] = 0
    /\ \A b \in Blocks : location[p] \in fresh[p][b]

Agrees(p) == IF p \in Migrating THEN EntryAgrees(p) ELSE Resting(p)

\* While memory m has no room, a copy from it or to it is not completed.
HeldUpBy(e, m) ==
    /\ e.src = m => e.leftToRead > 0 \/ e.unread # {}
    /\ e.dest = m => e.leftToWrite > 0

\* The copies that stalled while reading are held up by a memory that will call.
StalledWait == stalledOnRead # <<>> =>
    \E m \in full \cap registered : \A i \in DOMAIN stalledOnRead :
        stalledOnRead[i] \in Migrating /\ HeldUpBy(migrations[stalledOnRead[i]], m)

\* Those in the lists wait for the memory they need, and it will call.
ReadersForOne == \A i \in DOMAIN stalledOnRead :
    /\ stalledOnRead[i] \in Migrating
    /\ migrations[stalledOnRead[i]].src \in full \cap registered

WritersForOne == \A i \in DOMAIN stalledOnWrite :
    /\ stalledOnWrite[i] \in Migrating
    /\ migrations[stalledOnWrite[i]].dest \in full \cap registered

StalledForOne == ReadersForOne /\ WritersForOne

IInv == TypeOK /\ (\A p \in Pages : Agrees(p)) /\ StalledWait /\ (OneQueue => StalledForOne)

\* What is assumed of the configuration, beyond PageCopyAssumption: the two options that
\* the runs show to break the copy are off, as they are by default, and rollbacks are calm.
Configured ==
    /\ ~Elide /\ CalmRollback
    /\ \A s \in Settings : s.demotable # {} => s.threshold = 0

-----------------------------------------------------------------------------
(* The counters *)

\* How many blocks are in a state.
LEMMA Sizes ==
    ASSUME NEW e \in Entry, NEW s
    PROVE  /\ InState(e, s) \subseteq Blocks /\ IsFiniteSet(InState(e, s))
           /\ Cardinality(InState(e, s)) \in 0 .. NumBlocks
           /\ Cardinality(InState(e, s)) = 0 <=> InState(e, s) = {}
           /\ Cardinality(InState(e, s)) = NumBlocks <=> InState(e, s) = Blocks
<1>1. NumBlocks \in Nat
    BY PageCopyAssumption
<1>2. IsFiniteSet(Blocks) /\ Cardinality(Blocks) = NumBlocks
    BY <1>1, FS_Interval DEF Blocks
<1>3. InState(e, s) \in SUBSET Blocks
    BY DEF InState
<1>4. /\ IsFiniteSet(InState(e, s)) /\ Cardinality(InState(e, s)) <= NumBlocks
      /\ Cardinality(InState(e, s)) = NumBlocks => InState(e, s) = Blocks
    BY <1>2, <1>3, FS_Subset
<1>5. Cardinality(InState(e, s)) \in Nat /\ (Cardinality(InState(e, s)) = 0 <=> InState(e, s) = {})
    BY <1>4, FS_CardinalityType, FS_EmptySet
<1> QED
    BY <1>1, <1>2, <1>3, <1>4, <1>5

\* A block goes from one state to another.
LEMMA Moves ==
    ASSUME NEW e \in Entry, NEW f \in Entry, NEW b \in Blocks, NEW t, t # e.state[b],
           f.state = [e.state EXCEPT ![b] = t]
    PROVE  LET s == e.state[b] IN
           /\ b \in InState(e, s) /\ InState(f, s) = InState(e, s) \ {b}
           /\ Cardinality(InState(f, s)) = Cardinality(InState(e, s)) - 1
           /\ b \notin InState(e, t) /\ InState(f, t) = InState(e, t) \cup {b}
           /\ Cardinality(InState(f, t)) = Cardinality(InState(e, t)) + 1
           /\ \A u : u \notin {s, t} => InState(f, u) = InState(e, u)
<1> DEFINE s == e.state[b]
<1>1. e.state \in [Blocks -> States]
    BY DEF Entry, States
<1>2. /\ b \in InState(e, s) /\ InState(f, s) = InState(e, s) \ {b}
      /\ b \notin InState(e, t) /\ InState(f, t) = InState(e, t) \cup {b}
    BY <1>1 DEF InState
<1>3. \A u : u \notin {s, t} => InState(f, u) = InState(e, u)
    BY <1>1 DEF InState
<1> HIDE DEF s
<1>4. IsFiniteSet(InState(e, s)) /\ IsFiniteSet(InState(e, t))
    BY Sizes
<1>5. Cardinality(InState(e, s) \ {b}) = Cardinality(InState(e, s)) - 1
    BY <1>2, <1>4, FS_RemoveElement
<1>6. Cardinality(InState(e, t) \cup {b}) = Cardinality(InState(e, t)) + 1
    BY <1>2, <1>4, FS_AddElement
<1> QED
    BY <1>2, <1>3, <1>5, <1>6 DEF s

\* The same, of a block of e that goes from state s to t, which gives f.
Becomes(e, f, b, s, t) ==
    /\ e \in Entry /\ f \in Entry /\ b \in Blocks
    /\ e.state[b] = s /\ t # s /\ f.state = [e.state EXCEPT ![b] = t]

LEMMA BecomesIs ==
    ASSUME NEW e, NEW f, NEW b, NEW s, NEW t, Becomes(e, f, b, s, t)
    PROVE  /\ b \in InState(e, s) /\ InState(f, s) = InState(e, s) \ {b}
           /\ Cardinality(InState(f, s)) = Cardinality(InState(e, s)) - 1
           /\ InState(f, t) = InState(e, t) \cup {b}
           /\ Cardinality(InState(f, t)) = Cardinality(InState(e, t)) + 1
           /\ \A u : u \notin {s, t} => InState(f, u) = InState(e, u)
BY Moves DEF Becomes

\* What the counters say.
LEMMA CountsSay ==
    ASSUME NEW e \in Entry, NEW R, Counts(e, R)
    PROVE  /\ e.leftToRead \in 0 .. NumBlocks /\ e.leftToWrite \in 0 .. NumBlocks
           /\ e.leftToCompleteRead \in 0 .. NumBlocks
           /\ Cardinality(R) \in Nat /\ Cardinality(e.unread) \in Nat /\ IsFiniteSet(e.unread)
           /\ e.leftToRead = 0 <=> InState(e, "NOT_READ") = {}
           /\ e.leftToWrite = 0 <=> InState(e, "WRITTEN") = Blocks
           /\ IsComplete(e) => R = {} /\ e.unread = {} /\ e.leftToRead = 0
           /\ \A b \in Blocks : e.state[b] = "NOT_READ" => e.leftToRead > 0
           /\ \A b \in Blocks : e.state[b] # "WRITTEN" => e.leftToWrite > 0
<1>1. NumBlocks \in Nat
    BY PageCopyAssumption
<1>2. IsFiniteSet(Blocks) /\ e.unread \in SUBSET Blocks
    BY <1>1, FS_Interval DEF Blocks, Entry
<1>3. IsFiniteSet(e.unread)
    BY <1>2, FS_Subset
<1>4. Cardinality(R) \in Nat /\ Cardinality(e.unread) \in Nat
    BY <1>3, FS_CardinalityType DEF Counts
<1>5. Cardinality(R) = 0 => R = {}
    BY FS_EmptySet DEF Counts
<1>6. Cardinality(e.unread) = 0 => e.unread = {}
    BY <1>3, FS_EmptySet
<1>7. /\ e.leftToRead \in 0 .. NumBlocks /\ e.leftToWrite \in 0 .. NumBlocks
      /\ e.leftToRead = 0 <=> InState(e, "NOT_READ") = {}
      /\ e.leftToWrite = 0 <=> InState(e, "WRITTEN") = Blocks
    BY <1>1, Sizes DEF Counts
<1>8. e.leftToCompleteRead \in 0 .. NumBlocks
    BY <1>1, <1>4, <1>7 DEF Counts
<1>9. IsComplete(e) => R = {} /\ e.unread = {} /\ e.leftToRead = 0
    <2>1. e.leftToCompleteRead = e.leftToRead + Cardinality(R) + Cardinality(e.unread)
        BY DEF Counts
    <2>2. IsComplete(e) => e.leftToCompleteRead = 0
        BY DEF IsComplete
    <2>3. IsComplete(e) => e.leftToRead = 0 /\ Cardinality(R) = 0 /\ Cardinality(e.unread) = 0
        BY <1>1, <1>4, <1>7, <2>1, <2>2
    <2> QED
        BY <1>5, <1>6, <2>3
<1>10. \A b \in Blocks : e.state[b] = "NOT_READ" => e.leftToRead > 0
    BY <1>1, <1>7 DEF InState
<1>11. \A b \in Blocks : e.state[b] # "WRITTEN" => e.leftToWrite > 0
    BY <1>1, <1>7 DEF InState
<1> QED
    BY <1>3, <1>4, <1>7, <1>8, <1>9, <1>10, <1>11

-----------------------------------------------------------------------------
(* What changes of an entry keep *)

\* What no change but a rollback and the end of the copy touches.
Same(e, f) == f.src = e.src /\ f.dest = e.dest /\ f.rolledBack = e.rolledBack /\ f.copied = e.copied

\* The holders of the contents of block b change from F to G.
Rehoused(F, G, b, S) == \A c \in Blocks : G[c] = IF c = b THEN S ELSE F[c]

\* Of the holders S, from passes the contents on to m.
HeldToo(S, from, m) == IF from \in S THEN S \cup {m} ELSE S \ {m}

\* Block b of the entry e begins to be read, which gives f.
Began(e, f, b) ==
    /\ e \in Entry /\ f \in Entry /\ b \in Blocks /\ e.state[b] = "NOT_READ" /\ Same(e, f)
    /\ f.state = [e.state EXCEPT ![b] = "READING"] /\ f.dirty = e.dirty /\ f.unread = e.unread
    /\ f.leftToRead = Dec(e.leftToRead) /\ f.leftToCompleteRead = e.leftToCompleteRead
    /\ f.leftToWrite = e.leftToWrite

\* A block begins to be read.
LEMMA BodyReading ==
    ASSUME NEW e, NEW f, NEW b, Began(e, f, b), NEW R, NEW F, NEW at, Body(e, R, F, at),
           NEW r, r.block = b, r.from = e.src
    PROVE  /\ Body(f, R \cup {r}, F, at) /\ ~e.copied /\ e.leftToWrite > 0
           /\ e.leftToRead > 0 /\ f.leftToRead = e.leftToRead - 1
           /\ b \in InState(e, "NOT_READ") /\ InState(f, "NOT_READ") = InState(e, "NOT_READ") \ {b}
           /\ InState(f, "BUFFERED") = InState(e, "BUFFERED")
<1>0. /\ e \in Entry /\ f \in Entry /\ b \in Blocks /\ e.state[b] = "NOT_READ" /\ Same(e, f)
      /\ f.state = [e.state EXCEPT ![b] = "READING"] /\ f.dirty = e.dirty /\ f.unread = e.unread
      /\ f.leftToRead = Dec(e.leftToRead) /\ f.leftToCompleteRead = e.leftToCompleteRead
      /\ f.leftToWrite = e.leftToWrite
    BY DEF Began
<1> USE <1>0
<1>1. Sides(e, at) /\ Counts(e, R) /\ Answers(e, R) /\ Held(e, F)
    BY DEF Body
<1>2. /\ e.leftToRead > 0 /\ e.leftToRead \in 0 .. NumBlocks /\ e.leftToWrite > 0 /\ NumBlocks \in Nat
      /\ Cardinality(R) \in Nat /\ Cardinality(e.unread) \in Nat
    BY <1>1, CountsSay, PageCopyAssumption
<1>3. f.leftToRead = e.leftToRead - 1
    BY <1>2, DecIs
<1>4. ~IsComplete(e)
    BY <1>2 DEF IsComplete
<1>5. Sides(f, at) /\ ~e.copied
    BY <1>1, <1>4 DEF Sides, Same
<1>6. /\ b \in InState(e, "NOT_READ") /\ InState(f, "NOT_READ") = InState(e, "NOT_READ") \ {b}
      /\ Cardinality(InState(f, "NOT_READ")) = Cardinality(InState(e, "NOT_READ")) - 1
      /\ InState(f, "BUFFERED") = InState(e, "BUFFERED")
      /\ InState(f, "WRITTEN") = InState(e, "WRITTEN")
    <2>1. Becomes(e, f, b, "NOT_READ", "READING")
        BY DEF Becomes
    <2> QED
        BY <2>1, BecomesIs
<1>7. e.state \in [Blocks -> States]
    BY DEF Entry, States
<1>8. r \notin R /\ IsFiniteSet(R \cup {r}) /\ Cardinality(R \cup {r}) = Cardinality(R) + 1
    <2>1. r \notin R
        BY <1>1 DEF Answers
    <2>2. IsFiniteSet(R)
        BY <1>1 DEF Counts
    <2> QED
        BY <2>1, <2>2, FS_AddElement
<1>9. Counts(f, R \cup {r})
    BY <1>1, <1>2, <1>3, <1>6, <1>7, <1>8 DEF Counts
<1>10. Answers(f, R \cup {r})
    <2>1. SUFFICES ASSUME NEW x \in R \cup {r}
                   PROVE  f.state[x.block] # "NOT_READ" /\ (f.state[x.block] = "READING" => x.from = f.src)
        BY DEF Answers
    <2>2. CASE x = r
        BY <1>7, <2>2 DEF Same
    <2>3. CASE x \in R
        BY <1>1, <1>7, <2>3 DEF Answers, Same
    <2> QED
        BY <2>2, <2>3
<1>11. Held(f, F)
    BY <1>1, <1>7 DEF Held, Same
<1> QED
    BY <1>2, <1>3, <1>5, <1>6, <1>9, <1>10, <1>11 DEF Body

\* A block is written before it is read.
LEMMA BodyUnread ==
    ASSUME NEW e \in Entry, NEW f \in Entry, NEW b \in Blocks, NEW R, NEW F, NEW G, NEW at,
           Body(e, R, F, at), e.state[b] = "NOT_READ", ~e.rolledBack, Same(e, f),
           f.state = [e.state EXCEPT ![b] = "BUFFERED"], f.dirty = [e.dirty EXCEPT ![b] = TRUE],
           f.unread = e.unread \cup {b},
           f.leftToRead = Dec(e.leftToRead), f.leftToCompleteRead = e.leftToCompleteRead,
           f.leftToWrite = e.leftToWrite,
           Rehoused(F, G, b, {"buffer"})
    PROVE  /\ Body(f, R, G, at) /\ ~e.copied /\ e.leftToWrite > 0
           /\ e.leftToRead > 0 /\ f.leftToRead = e.leftToRead - 1
           /\ b \in InState(e, "NOT_READ") /\ InState(f, "NOT_READ") = InState(e, "NOT_READ") \ {b}
           /\ InState(f, "BUFFERED") = InState(e, "BUFFERED") \cup {b}
<1>1. Sides(e, at) /\ Counts(e, R) /\ Answers(e, R) /\ Held(e, F)
    BY DEF Body
<1>2. /\ e.leftToRead > 0 /\ e.leftToRead \in 0 .. NumBlocks /\ e.leftToWrite > 0 /\ NumBlocks \in Nat
      /\ Cardinality(R) \in Nat /\ Cardinality(e.unread) \in Nat /\ IsFiniteSet(e.unread)
    BY <1>1, CountsSay, PageCopyAssumption
<1>3. f.leftToRead = e.leftToRead - 1
    BY <1>2, DecIs
<1>4. ~IsComplete(e)
    BY <1>2 DEF IsComplete
<1>5. Sides(f, at) /\ ~e.copied
    BY <1>1, <1>4 DEF Sides, Same
<1>6. /\ b \in InState(e, "NOT_READ") /\ InState(f, "NOT_READ") = InState(e, "NOT_READ") \ {b}
      /\ Cardinality(InState(f, "NOT_READ")) = Cardinality(InState(e, "NOT_READ")) - 1
      /\ InState(f, "BUFFERED") = InState(e, "BUFFERED") \cup {b}
      /\ InState(f, "WRITTEN") = InState(e, "WRITTEN")
    <2>1. Becomes(e, f, b, "NOT_READ", "BUFFERED")
        BY DEF Becomes
    <2>2. /\ b \in InState(e, "NOT_READ") /\ InState(f, "NOT_READ") = InState(e, "NOT_READ") \ {b}
          /\ Cardinality(InState(f, "NOT_READ")) = Cardinality(InState(e, "NOT_READ")) - 1
        BY <2>1, BecomesIs
    <2>3. InState(f, "BUFFERED") = InState(e, "BUFFERED") \cup {b}
        BY <2>1, BecomesIs
    <2>4. InState(f, "WRITTEN") = InState(e, "WRITTEN")
        BY <2>1, BecomesIs
    <2> QED
        BY <2>2, <2>3, <2>4
<1>7. e.state \in [Blocks -> States] /\ e.dirty \in [Blocks -> BOOLEAN]
    BY DEF Entry, States
<1>8. Cardinality(f.unread) = Cardinality(e.unread) + 1
    <2>1. b \notin e.unread
        BY <1>1 DEF Counts
    <2> QED
        BY <1>2, <2>1, FS_AddElement
<1>9. Counts(f, R)
    <2>1. \A c \in f.unread : f.state[c] # "NOT_READ"
        BY <1>1, <1>7 DEF Counts, Entry
    <2> QED
        BY <1>1, <1>2, <1>3, <1>6, <1>8, <2>1 DEF Counts
<1>10. Answers(f, R)
    BY <1>1, <1>7 DEF Answers, Same
<1>11. Held(f, G)
    BY <1>1, <1>7 DEF Held, Same, Rehoused
<1> QED
    BY <1>2, <1>3, <1>5, <1>6, <1>9, <1>10, <1>11 DEF Body

\* A block is written while it is read.
LEMMA BodyOvertaken ==
    ASSUME NEW e \in Entry, NEW f \in Entry, NEW b \in Blocks, NEW R, NEW F, NEW G, NEW at,
           Body(e, R, F, at), e.state[b] = "READING", Same(e, f),
           f.state = [e.state EXCEPT ![b] = "BUFFERED"], f.dirty = [e.dirty EXCEPT ![b] = TRUE],
           f.unread = e.unread,
           f.leftToRead = e.leftToRead, f.leftToCompleteRead = e.leftToCompleteRead,
           f.leftToWrite = e.leftToWrite,
           Rehoused(F, G, b, {"buffer"})
    PROVE  /\ Body(f, R, G, at) /\ ~e.copied /\ e.leftToWrite > 0
           /\ InState(f, "NOT_READ") = InState(e, "NOT_READ")
           /\ InState(f, "BUFFERED") = InState(e, "BUFFERED") \cup {b}
<1>1. Sides(e, at) /\ Counts(e, R) /\ Answers(e, R) /\ Held(e, F)
    BY DEF Body
<1>2. e.leftToWrite > 0 /\ e.leftToWrite \in 0 .. NumBlocks /\ NumBlocks \in Nat
    BY <1>1, CountsSay, PageCopyAssumption
<1>3. ~IsComplete(e)
    BY <1>2 DEF IsComplete
<1>4. Sides(f, at) /\ ~e.copied
    BY <1>1, <1>3 DEF Sides, Same
<1>5. /\ InState(f, "NOT_READ") = InState(e, "NOT_READ")
      /\ InState(f, "BUFFERED") = InState(e, "BUFFERED") \cup {b}
      /\ InState(f, "WRITTEN") = InState(e, "WRITTEN")
    BY Moves
<1>6. e.state \in [Blocks -> States] /\ e.dirty \in [Blocks -> BOOLEAN]
    BY DEF Entry, States
<1>7. Counts(f, R)
    BY <1>1, <1>5, <1>6 DEF Counts
<1>8. Answers(f, R)
    BY <1>1, <1>6 DEF Answers, Same
<1>9. Held(f, G)
    BY <1>1, <1>6 DEF Held, Same, Rehoused
<1> QED
    BY <1>2, <1>4, <1>5, <1>7, <1>8, <1>9 DEF Body

\* The block b of e has arrived, the holders of the contents change from F to G.
Arrived(e, f, b, F, G) ==
    /\ e.state[b] = "READING" /\ Same(e, f)
    /\ f.state = [e.state EXCEPT ![b] = "BUFFERED"] /\ f.dirty = e.dirty /\ f.unread = e.unread
    /\ f.leftToRead = e.leftToRead /\ f.leftToCompleteRead = Dec(e.leftToCompleteRead)
    /\ f.leftToWrite = e.leftToWrite
    /\ Rehoused(F, G, b, HeldToo(F[b], e.src, "buffer"))

\* A block that is read arrives.
LEMMA BodyArrived ==
    ASSUME NEW e \in Entry, NEW f \in Entry, NEW b \in Blocks, NEW R, NEW F, NEW G, NEW at, NEW r \in R,
           Body(e, R, F, at), r.block = b, Arrived(e, f, b, F, G)
    PROVE  /\ Body(f, R \ {r}, G, at) /\ ~e.copied /\ e.leftToWrite > 0
           /\ InState(f, "NOT_READ") = InState(e, "NOT_READ")
           /\ InState(f, "BUFFERED") = InState(e, "BUFFERED") \cup {b}
<1>0. /\ e.state[b] = "READING" /\ Same(e, f)
      /\ f.state = [e.state EXCEPT ![b] = "BUFFERED"] /\ f.dirty = e.dirty /\ f.unread = e.unread
      /\ f.leftToRead = e.leftToRead /\ f.leftToCompleteRead = Dec(e.leftToCompleteRead)
      /\ f.leftToWrite = e.leftToWrite
      /\ Rehoused(F, G, b, HeldToo(F[b], e.src, "buffer"))
    BY DEF Arrived
<1>1. Sides(e, at) /\ Counts(e, R) /\ Answers(e, R) /\ Held(e, F)
    BY <1>0 DEF Body
<1>2. /\ e.leftToWrite > 0 /\ e.leftToWrite \in 0 .. NumBlocks /\ NumBlocks \in Nat
      /\ e.leftToCompleteRead \in 0 .. NumBlocks /\ e.leftToRead \in 0 .. NumBlocks
      /\ Cardinality(R) \in Nat /\ Cardinality(e.unread) \in Nat
    BY <1>0, <1>1, CountsSay, PageCopyAssumption
<1>3. ~IsComplete(e)
    BY <1>0, <1>2 DEF IsComplete
<1>4. Sides(f, at) /\ ~e.copied
    BY <1>0, <1>1, <1>3 DEF Sides, Same
<1>5. /\ InState(f, "NOT_READ") = InState(e, "NOT_READ")
      /\ InState(f, "BUFFERED") = InState(e, "BUFFERED") \cup {b}
      /\ InState(f, "WRITTEN") = InState(e, "WRITTEN")
    <2>1. Becomes(e, f, b, "READING", "BUFFERED")
        BY <1>0 DEF Becomes
    <2> QED
        BY <2>1, BecomesIs
<1>6. e.state \in [Blocks -> States] /\ e.dirty \in [Blocks -> BOOLEAN]
    BY <1>0 DEF Entry, States
<1>7. IsFiniteSet(R \ {r}) /\ Cardinality(R \ {r}) = Cardinality(R) - 1 /\ Cardinality(R) > 0
    <2>1. IsFiniteSet(R)
        BY <1>0, <1>1 DEF Counts
    <2>2. Cardinality(R) # 0
        BY <1>0, <2>1, FS_EmptySet
    <2>3. IsFiniteSet(R \ {r}) /\ Cardinality(R \ {r}) = Cardinality(R) - 1
        BY <1>0, <2>1, FS_RemoveElement
    <2> QED
        BY <1>0, <1>2, <2>2, <2>3
<1>8. f.leftToCompleteRead = e.leftToCompleteRead - 1
    <2>1. e.leftToCompleteRead = e.leftToRead + Cardinality(R) + Cardinality(e.unread)
        BY <1>0, <1>1 DEF Counts
    <2>2. e.leftToCompleteRead \in 1 .. NumBlocks
        BY <1>0, <1>2, <1>7, <2>1
    <2> QED
        BY <1>0, <2>2, DecIs
<1>9. Counts(f, R \ {r})
    <2>1. \A c \in f.unread : f.state[c] # "NOT_READ"
        BY <1>0, <1>1, <1>6 DEF Counts
    <2> QED
        BY <1>0, <1>1, <1>2, <1>5, <1>7, <1>8, <2>1 DEF Counts
<1>10. Answers(f, R \ {r})
    BY <1>0, <1>1, <1>6 DEF Answers, Same
<1>11. Held(f, G)
    <2>1. e.src \in F[b]
        BY <1>0, <1>1 DEF Held
    <2>2. \A c \in Blocks : F[c] \subseteq G[c] /\ "buffer" \in G[b]
        BY <1>0, <2>1 DEF Rehoused, HeldToo
    <2> QED
        BY <1>0, <1>1, <1>6, <2>2 DEF Held, Same
<1> QED
    BY <1>0, <1>2, <1>4, <1>5, <1>9, <1>10, <1>11 DEF Body

\* A read is answered whose block was written meanwhile.
LEMMA BodyLate ==
    ASSUME NEW e \in Entry, NEW f \in Entry, NEW R, NEW F, NEW at, NEW r \in R,
           Body(e, R, F, at), Same(e, f), f.state = e.state, f.dirty = e.dirty, f.unread = e.unread,
           f.leftToRead = e.leftToRead, f.leftToCompleteRead = Dec(e.leftToCompleteRead),
           f.leftToWrite = e.leftToWrite
    PROVE  /\ Body(f, R \ {r}, F, at) /\ ~e.copied
           /\ \A s : InState(f, s) = InState(e, s)
<1>1. Sides(e, at) /\ Counts(e, R) /\ Answers(e, R) /\ Held(e, F)
    BY DEF Body
<1>2. /\ NumBlocks \in Nat
      /\ e.leftToCompleteRead \in 0 .. NumBlocks /\ e.leftToRead \in 0 .. NumBlocks
      /\ Cardinality(R) \in Nat /\ Cardinality(e.unread) \in Nat
      /\ IsComplete(e) => R = {}
    BY <1>1, CountsSay, PageCopyAssumption
<1>3. ~IsComplete(e)
    BY <1>2
<1>4. Sides(f, at) /\ ~e.copied
    BY <1>1, <1>3 DEF Sides, Same
<1>5. \A s : InState(f, s) = InState(e, s)
    BY DEF InState
<1>6. IsFiniteSet(R \ {r}) /\ Cardinality(R \ {r}) = Cardinality(R) - 1 /\ Cardinality(R) > 0
    <2>1. IsFiniteSet(R)
        BY <1>1 DEF Counts
    <2>2. Cardinality(R) # 0
        BY <2>1, FS_EmptySet
    <2>3. IsFiniteSet(R \ {r}) /\ Cardinality(R \ {r}) = Cardinality(R) - 1
        BY <2>1, FS_RemoveElement
    <2> QED
        BY <1>2, <2>2, <2>3
<1>7. f.leftToCompleteRead = e.leftToCompleteRead - 1
    <2>1. e.leftToCompleteRead = e.leftToRead + Cardinality(R) + Cardinality(e.unread)
        BY <1>1 DEF Counts
    <2>2. e.leftToCompleteRead \in 1 .. NumBlocks
        BY <1>2, <1>6, <2>1
    <2> QED
        BY <2>2, DecIs
<1>8. Counts(f, R \ {r})
    BY <1>1, <1>2, <1>5, <1>6, <1>7 DEF Counts
<1>9. Answers(f, R \ {r}) /\ Held(f, F)
    BY <1>1 DEF Answers, Held, Same
<1> QED
    BY <1>4, <1>5, <1>8, <1>9 DEF Body

\* Block b of the entry e is written, which gives f.
Wrote(e, f, b) ==
    /\ e \in Entry /\ f \in Entry /\ b \in Blocks /\ e.state[b] = "BUFFERED" /\ Same(e, f)
    /\ f.state = [e.state EXCEPT ![b] = "WRITTEN"] /\ f.dirty = e.dirty /\ f.unread = e.unread
    /\ f.leftToRead = e.leftToRead /\ f.leftToCompleteRead = e.leftToCompleteRead
    /\ f.leftToWrite = Dec(e.leftToWrite)

\* A block is written to the destination.
LEMMA BodyWritten ==
    ASSUME NEW e, NEW f, NEW b, Wrote(e, f, b), NEW R, NEW F, NEW G, NEW at, Body(e, R, F, at),
           Rehoused(F, G, b, IF "buffer" \in F[b] THEN F[b] \cup {e.dest} ELSE F[b] \ {e.dest})
    PROVE  /\ Body(f, R, G, at) /\ ~e.copied /\ f.leftToWrite = e.leftToWrite - 1
           /\ InState(f, "NOT_READ") = InState(e, "NOT_READ")
           /\ b \in InState(e, "BUFFERED") /\ InState(f, "BUFFERED") = InState(e, "BUFFERED") \ {b}
<1>0. /\ e \in Entry /\ f \in Entry /\ b \in Blocks /\ e.state[b] = "BUFFERED" /\ Same(e, f)
      /\ f.state = [e.state EXCEPT ![b] = "WRITTEN"] /\ f.dirty = e.dirty /\ f.unread = e.unread
      /\ f.leftToRead = e.leftToRead /\ f.leftToCompleteRead = e.leftToCompleteRead
      /\ f.leftToWrite = Dec(e.leftToWrite)
    BY DEF Wrote
<1> USE <1>0
<1>1. Sides(e, at) /\ Counts(e, R) /\ Answers(e, R) /\ Held(e, F)
    BY DEF Body
<1>2. e.leftToWrite > 0 /\ e.leftToWrite \in 0 .. NumBlocks /\ NumBlocks \in Nat
    BY <1>1, CountsSay, PageCopyAssumption
<1>3. f.leftToWrite = e.leftToWrite - 1
    BY <1>2, DecIs
<1>4. ~IsComplete(e)
    BY <1>2 DEF IsComplete
<1>5. Sides(f, at) /\ ~e.copied
    BY <1>1, <1>4 DEF Sides, Same
<1>6. /\ InState(f, "NOT_READ") = InState(e, "NOT_READ")
      /\ b \in InState(e, "BUFFERED") /\ InState(f, "BUFFERED") = InState(e, "BUFFERED") \ {b}
      /\ Cardinality(InState(f, "WRITTEN")) = Cardinality(InState(e, "WRITTEN")) + 1
    <2>1. Becomes(e, f, b, "BUFFERED", "WRITTEN")
        BY DEF Becomes
    <2> QED
        BY <2>1, BecomesIs
<1>7. e.state \in [Blocks -> States]
    BY DEF Entry, States
<1>8. Cardinality(InState(e, "WRITTEN")) \in Nat
    BY Sizes, <1>2
<1>9. Counts(f, R)
    <2>1. \A c \in f.unread : f.state[c] # "NOT_READ"
        BY <1>1, <1>7 DEF Counts
    <2> QED
        BY <1>1, <1>2, <1>3, <1>6, <1>8, <2>1 DEF Counts
<1>10. Answers(f, R)
    BY <1>1, <1>7 DEF Answers, Same
<1>11. Held(f, G)
    <2>1. "buffer" \in F[b]
        BY <1>1 DEF Held
    <2>2. (\A c \in Blocks : F[c] \subseteq G[c]) /\ e.dest \in G[b]
        BY <2>1 DEF Rehoused
    <2> QED
        BY <1>1, <1>7, <2>2 DEF Held, Same
<1> QED
    BY <1>3, <1>5, <1>6, <1>9, <1>10, <1>11 DEF Body

\* A cache writes a block that is in the buffer, or in the destination.
LEMMA BodyDirtied ==
    ASSUME NEW e \in Entry, NEW f \in Entry, NEW b \in Blocks, NEW R, NEW F, NEW G, NEW at, NEW m,
           Body(e, R, F, at), Same(e, f), f.state = e.state, f.dirty = [e.dirty EXCEPT ![b] = TRUE],
           f.unread = e.unread, f.leftToRead = e.leftToRead,
           f.leftToCompleteRead = e.leftToCompleteRead, f.leftToWrite = e.leftToWrite,
           \/ e.state[b] = "BUFFERED" /\ m = "buffer"
           \/ e.state[b] = "WRITTEN" /\ m = e.dest,
           Rehoused(F, G, b, {m})
    PROVE  Body(f, R, G, at) /\ \A s : InState(f, s) = InState(e, s)
<1>1. Sides(e, at) /\ Counts(e, R) /\ Answers(e, R) /\ Held(e, F)
    BY DEF Body
<1>2. \A s : InState(f, s) = InState(e, s)
    BY DEF InState
<1>3. e.dirty \in [Blocks -> BOOLEAN]
    BY DEF Entry
<1>4. Sides(f, at)
    BY <1>1 DEF Sides, Same, IsComplete
<1>5. Counts(f, R) /\ Answers(f, R)
    BY <1>1, <1>2 DEF Counts, Answers, Same
<1>6. Held(f, G)
    BY <1>1, <1>3 DEF Held, Same, Rehoused
<1> QED
    BY <1>2, <1>4, <1>5, <1>6 DEF Body

\* A new copy of a page.
LEMMA BodyNew ==
    ASSUME NEW src \in Mems, NEW dest \in Mems, src # dest, NEW F,
           src = "dram" => setting.threshold = 0, \A b \in Blocks : src \in F[b]
    PROVE  /\ Body(NewEntry(src, dest), {}, F, src)
           /\ NewEntry(src, dest).leftToRead = NumBlocks
           /\ InState(NewEntry(src, dest), "NOT_READ") = Blocks
           /\ InState(NewEntry(src, dest), "BUFFERED") = {}
<1> DEFINE e == NewEntry(src, dest)
<1>1. /\ e.src = src /\ e.dest = dest /\ ~e.rolledBack /\ ~e.copied /\ e.unread = {}
      /\ e.leftToRead = NumBlocks /\ e.leftToCompleteRead = NumBlocks /\ e.leftToWrite = NumBlocks
      /\ \A b \in Blocks : e.state[b] = "NOT_READ"
      /\ \A b \in Blocks : ~e.dirty[b]
    BY DEF NewEntry
<1> HIDE DEF e
<1>2. InState(e, "NOT_READ") = Blocks /\ InState(e, "BUFFERED") = {} /\ InState(e, "WRITTEN") = {}
    BY <1>1 DEF InState
<1>3. NumBlocks \in Nat /\ IsFiniteSet({}) /\ Cardinality({}) = 0 /\ Cardinality(Blocks) = NumBlocks
    BY PageCopyAssumption, FS_Interval, FS_EmptySet DEF Blocks
<1>4. Counts(e, {})
    <2>1. /\ e.leftToRead = Cardinality(InState(e, "NOT_READ"))
          /\ Cardinality(e.unread) = 0 /\ Cardinality(InState(e, "WRITTEN")) = 0
        BY <1>1, <1>2, <1>3
    <2>2. /\ e.leftToCompleteRead = e.leftToRead + Cardinality({}) + Cardinality(e.unread)
          /\ e.leftToCompleteRead <= NumBlocks
          /\ e.leftToWrite = NumBlocks - Cardinality(InState(e, "WRITTEN"))
        BY <1>1, <1>3, <2>1
    <2> QED
        BY <1>1, <1>3, <2>1, <2>2 DEF Counts
<1>5. Sides(e, src) /\ Answers(e, {}) /\ Held(e, F)
    BY <1>1 DEF Sides, Answers, Held, Mems
<1> QED
    BY <1>1, <1>2, <1>4, <1>5 DEF Body, e

\* What Body does not look at.
LEMMA BodySame ==
    ASSUME NEW e \in Entry, NEW f \in Entry, NEW R, NEW F, NEW at, Body(e, R, F, at), Same(e, f),
           f.state = e.state, f.dirty = e.dirty, f.unread = e.unread, f.leftToRead = e.leftToRead,
           f.leftToCompleteRead = e.leftToCompleteRead, f.leftToWrite = e.leftToWrite
    PROVE  Body(f, R, F, at) /\ \A s : InState(f, s) = InState(e, s)
<1>1. \A s : InState(f, s) = InState(e, s)
    BY DEF InState
<1> QED
    BY <1>1 DEF Body, Sides, Counts, Answers, Held, Same, IsComplete

-----------------------------------------------------------------------------
(* Cursors and chains *)

\* The threshold is a number, and zero where pages may be demoted.
LEMMA ThresholdIs ==
    ASSUME TypeOK
    PROVE  /\ setting.threshold \in Nat
           /\ Configured /\ setting.demotable # {} => setting.threshold = 0
    BY PageCopyAssumption DEF TypeOK, Configured

\* A block less is to be read: the copy goes on by itself from the threshold on.
LEMMA ReadOnLinks ==
    ASSUME TypeOK, NEW e \in Entry, NEW g \in Entry, NEW b, NEW at, NEW n, NEW k,
           Sides(e, at), ~e.rolledBack, Same(e, g), g.nextRead = e.nextRead,
           e.leftToRead \in 1 .. NumBlocks, g.leftToRead = e.leftToRead - 1,
           g.leftToRead = Cardinality(InState(g, "NOT_READ")),
           InState(g, "NOT_READ") = InState(e, "NOT_READ") \ {b},
           ReadCursor(e), ReadLinked(e, n), k = n + IF AtThreshold(g) THEN 1 ELSE 0
    PROVE  ReadCursor(ReadOn(g)) /\ ReadLinked(ReadOn(g), k)
<1>1. setting.threshold \in Nat /\ NumBlocks \in Nat
    BY ThresholdIs, PageCopyAssumption
<1>2. InState(g, "NOT_READ") \in SUBSET Blocks /\ (g.leftToRead = 0 <=> InState(g, "NOT_READ") = {})
    BY Sizes
<1>3. CASE AtThreshold(g)
    <2> DEFINE first == First(InState(g, "NOT_READ"))
    <2>1. first \in Blocks /\ first \in InState(g, "NOT_READ") /\ \A c \in InState(g, "NOT_READ") : first <= c
        BY <1>2, <1>3, FirstIs DEF AtThreshold
    <2>2. g.leftToRead = setting.threshold /\ g.leftToRead # 0
        BY <1>2, <1>3 DEF AtThreshold
    <2>3. e.src = "pcm"
        BY <2>2 DEF Sides, Entry, Mems
    <2>4. e.leftToRead > setting.threshold
        BY <1>1, <2>2
    <2>5. e.nextRead = 0 /\ n = 0
        BY <2>3, <2>4 DEF ReadCursor, ReadLinked
    <2>6. ReadOn(g) = [g EXCEPT !.nextRead = g.nextRead + first]
        BY <1>3 DEF ReadOn
    <2> HIDE DEF first
    <2>7. g.nextRead + first = first
        BY <2>1, <2>5, <1>1 DEF Blocks
    <2> DEFINE f == [g EXCEPT !.nextRead = first]
    <2>8. f.nextRead = first /\ f.state = g.state /\ f.leftToRead = g.leftToRead /\ f.src = g.src
          /\ f.rolledBack = g.rolledBack
        BY DEF Entry
    <2> HIDE DEF f
    <2>9. InState(f, "NOT_READ") = InState(g, "NOT_READ")
        BY <2>8 DEF InState
    <2>10. ReadCursor(f)
        BY <1>1, <2>1, <2>2, <2>8, <2>9 DEF ReadCursor
    <2>11. ReadLinked(f, k)
        BY <1>1, <1>3, <2>2, <2>5, <2>8 DEF ReadLinked
    <2> QED
        BY <2>6, <2>7, <2>10, <2>11 DEF f
<1>4. CASE ~AtThreshold(g)
    <2>1. ReadOn(g) = g /\ k = n
        BY <1>4 DEF ReadOn, ReadLinked
    <2>2. ReadCursor(g)
        <3>1. g.nextRead \in Blocks /\ \A c \in InState(g, "NOT_READ") : g.nextRead <= c
            BY DEF ReadCursor
        <3>2. g.src = "pcm" /\ g.leftToRead > setting.threshold => g.nextRead = 0
            BY <1>1 DEF ReadCursor, Same
        <3> QED
            BY <3>1, <3>2 DEF ReadCursor
    <2>3. ReadLinked(g, n)
        <3>1. g.leftToRead \in Nat /\ g.leftToRead < e.leftToRead /\ e.leftToRead \in Nat /\ e.leftToRead > 0
            BY <1>1 DEF Entry
        <3>2. g.leftToRead > 0 => g.leftToRead # setting.threshold
            BY <1>2, <1>4, <3>1 DEF AtThreshold
        <3>3. g.leftToRead > 0 /\ g.leftToRead <= setting.threshold => e.leftToRead <= setting.threshold
            BY <1>1, <3>1, <3>2
        <3>4. ASSUME OneQueue, g.leftToRead > 0, g.src = "dram" \/ g.leftToRead <= setting.threshold
              PROVE  n = 1
            BY <3>1, <3>3, <3>4 DEF ReadLinked, Same
        <3>5. n \in {0, 1} /\ (g.src = "pcm" /\ g.leftToRead > setting.threshold => n = 0)
            BY <1>1, <3>1 DEF ReadLinked, Same
        <3>6. ~g.rolledBack
            BY DEF Same
        <3> QED
            BY <3>4, <3>5, <3>6 DEF ReadLinked
    <2> QED
        BY <2>1, <2>2, <2>3
<1> QED
    BY <1>3, <1>4

\* A block more is buffered.
LEMMA WriteOnLinks ==
    ASSUME NEW e \in Entry, NEW g \in Entry, NEW b \in Blocks, NEW n, NEW k,
           g.nextWrite = e.nextWrite, e.leftToWrite > 0,
           InState(g, "BUFFERED") = InState(e, "BUFFERED") \cup {b},
           WriteCursor(e), WriteLinked(e, n), k = n + IF e.nextWrite = -1 THEN 1 ELSE 0
    PROVE  WriteCursor(WriteOn(g, b)) /\ WriteLinked(WriteOn(g, b), k)
<1> DEFINE f == WriteOn(g, b)
<1>1. /\ f.nextWrite = (IF e.nextWrite = -1 THEN b ELSE e.nextWrite)
      /\ f.state = g.state
    BY DEF WriteOn, Entry
<1> HIDE DEF f
<1>2. InState(f, "BUFFERED") = InState(e, "BUFFERED") \cup {b}
    BY <1>1 DEF InState
<1>3. e.leftToWrite # 0 /\ e.leftToWrite \in Nat
    BY DEF Entry
<1>4. -1 \notin InState(e, "BUFFERED")
    BY PageCopyAssumption DEF InState, Blocks
<1>5. CASE InState(e, "BUFFERED") = {}
    BY <1>1, <1>2, <1>3, <1>5 DEF WriteCursor, WriteLinked, f
<1>6. CASE InState(e, "BUFFERED") # {}
    <2>1. e.nextWrite \in InState(e, "BUFFERED")
        BY <1>6 DEF WriteCursor
    <2>2. k = n /\ f.nextWrite = e.nextWrite
        BY <1>1, <1>4, <2>1 DEF WriteLinked
    <2> QED
        BY <1>2, <2>1, <2>2 DEF WriteCursor, WriteLinked, f
<1> QED
    BY <1>5, <1>6

\* Neither the next block to read nor the chain of READ events is concerned.
LEMMA ReadLinksKept ==
    ASSUME NEW e \in Entry, NEW f \in Entry, NEW n, ReadCursor(e), ReadLinked(e, n), Same(e, f),
           f.nextRead = e.nextRead, f.leftToRead = e.leftToRead,
           InState(f, "NOT_READ") = InState(e, "NOT_READ")
    PROVE  ReadCursor(f) /\ ReadLinked(f, n)
    BY DEF ReadCursor, ReadLinked, Same

\* Nor are the next block to write and the chain of WRITE events.
LEMMA WriteLinksKept ==
    ASSUME NEW e \in Entry, NEW f \in Entry, NEW n, WriteCursor(e), WriteLinked(e, n),
           f.nextWrite = e.nextWrite, f.leftToWrite = e.leftToWrite,
           InState(f, "BUFFERED") = InState(e, "BUFFERED")
    PROVE  WriteCursor(f) /\ WriteLinked(f, n)
    BY DEF WriteCursor, WriteLinked

\* A list of stalled copies.
LEMMA OccurrencesAppended ==
    ASSUME NEW s \in Seq(Pages), NEW p \in Pages, NEW q
    PROVE  Occurrences(Append(s, p), q) = Occurrences(s, q) + IF q = p THEN 1 ELSE 0
<1> DEFINE A == {i \in DOMAIN s : s[i] = q}
           B == {i \in DOMAIN Append(s, p) : Append(s, p)[i] = q}
<1>1. DOMAIN s = 1 .. Len(s) /\ Len(s) \in Nat
    BY LenProperties
<1>2. /\ DOMAIN Append(s, p) = 1 .. Len(s) + 1 /\ Append(s, p)[Len(s) + 1] = p
      /\ \A i \in 1 .. Len(s) : Append(s, p)[i] = s[i]
    BY AppendProperties, LenProperties
<1>3. B = A \cup IF q = p THEN {Len(s) + 1} ELSE {}
    BY <1>1, <1>2
<1>4. A \subseteq 1 .. Len(s) /\ IsFiniteSet(1 .. Len(s)) /\ Len(s) + 1 \notin A
    BY <1>1, FS_Interval
<1>5. IsFiniteSet(A)
    BY <1>4, FS_Subset
<1>6. Cardinality(A) \in Nat
    BY <1>5, FS_CardinalityType
<1>7. Occurrences(s, q) = Cardinality(A) /\ Occurrences(Append(s, p), q) = Cardinality(B)
    BY DEF Occurrences
<1> HIDE DEF A, B
<1>8. CASE q = p
    <2>1. B = A \cup {Len(s) + 1}
        BY <1>3, <1>8
    <2>2. Cardinality(A \cup {Len(s) + 1}) = Cardinality(A) + 1
        BY <1>4, <1>5, FS_AddElement
    <2> QED
        BY <1>8, <1>7, <2>1, <2>2
<1>9. CASE q # p
    <2>1. B = A
        BY <1>3, <1>9
    <2> QED
        BY <1>6, <1>9, <1>7, <2>1
<1> QED
    BY <1>8, <1>9

\* A page that is not in a list does not occur in it.
LEMMA OccurrencesNone ==
    ASSUME NEW s \in Seq(Pages), NEW p
    PROVE  /\ Occurrences(s, p) = 0 <=> ~Contains(s, p)
           /\ Contains(s, p) <=> \E i \in DOMAIN s : s[i] = p
<1> DEFINE A == {i \in DOMAIN s : s[i] = p}
<1>1. DOMAIN s = 1 .. Len(s) /\ Len(s) \in Nat
    BY LenProperties
<1>2. A \subseteq 1 .. Len(s) /\ IsFiniteSet(1 .. Len(s))
    BY <1>1, FS_Interval
<1>3. IsFiniteSet(A)
    BY <1>2, FS_Subset
<1>4. Cardinality(A) = 0 <=> A = {}
    BY <1>3, FS_EmptySet
<1>5. Contains(s, p) <=> \E i \in DOMAIN s : s[i] = p
    BY <1>1 DEF Contains
<1> QED
    BY <1>4, <1>5 DEF Occurrences

\* Nothing occurs in the empty list.
LEMMA OccurrencesEmpty == \A p : Occurrences(<<>>, p) = 0
<1>1. \A p : {i \in DOMAIN <<>> : <<>>[i] = p} = {}
    OBVIOUS
<1> QED
    BY <1>1, FS_EmptySet DEF Occurrences

-----------------------------------------------------------------------------
(* From one state to the next *)

\* The chains are numbers.
LEMMA ChainsAre ==
    ASSUME TypeOK, NEW p \in Pages
    PROVE  /\ events[<<"READ", p>>] \in Nat /\ events[<<"WRITE", p>>] \in Nat /\ events[<<"COPY", p>>] \in Nat
           /\ Occurrences(stalledOnRead, p) \in Nat /\ Occurrences(stalledOnWrite, p) \in Nat
           /\ "READ" \in Kinds /\ "WRITE" \in Kinds /\ "COPY" \in Kinds
    BY OccurrencesFinite DEF TypeOK, Kinds

\* What a copy must be in the next state.
LEMMA AgreesNext ==
    ASSUME UNCHANGED setting, NEW p, p \in Migrating', NEW e, migrations'[p] = e,
           Body(e, CountedReads(p)', fresh'[p], location'[p]),
           ReadCursor(e), ReadLinked(e, ReadChain(p)'), WriteCursor(e), WriteLinked(e, WriteChain(p)'),
           CopyLinked(e, events'[<<"COPY", p>>])
    PROVE  Agrees(p)'
    BY DEF Agrees, EntryAgrees, Body, Sides, Counts, Answers, Held, ReadCursor, ReadLinked, WriteCursor,
           WriteLinked, CopyLinked, InState, IsComplete

\* Nothing happens to q.
Undisturbed(q) ==
    /\ q \in Migrating' <=> q \in Migrating
    /\ q \in Migrating => migrations'[q] = migrations[q]
    /\ CountedReads(q)' = CountedReads(q)
    /\ ReadChain(q)' = ReadChain(q) /\ WriteChain(q)' = WriteChain(q)
    /\ events'[<<"COPY", q>>] = events[<<"COPY", q>>]
    /\ fresh'[q] = fresh[q] /\ location'[q] = location[q]

\* A page to which nothing happens agrees as it did.
LEMMA Elsewhere ==
    ASSUME UNCHANGED setting, NEW q, Agrees(q), Undisturbed(q)
    PROVE  Agrees(q)'
<1>1. CASE q \in Migrating
    <2>1. EntryAgrees(q)
        BY <1>1 DEF Agrees
    <2>2. Body(migrations'[q], CountedReads(q)', fresh'[q], location'[q])
        BY <1>1, <2>1 DEF EntryAgrees, Undisturbed
    <2>3. ReadCursor(migrations'[q]) /\ ReadLinked(migrations'[q], ReadChain(q)')
        BY <1>1, <2>1 DEF EntryAgrees, Undisturbed
    <2>4. WriteCursor(migrations'[q]) /\ WriteLinked(migrations'[q], WriteChain(q)')
        BY <1>1, <2>1 DEF EntryAgrees, Undisturbed
    <2>5. CopyLinked(migrations'[q], events'[<<"COPY", q>>])
        BY <1>1, <2>1 DEF EntryAgrees, Undisturbed
    <2>6. q \in Migrating'
        BY <1>1 DEF Undisturbed
    <2> QED
        BY <2>2, <2>3, <2>4, <2>5, <2>6, AgreesNext
<1>2. CASE q \notin Migrating
    BY <1>2 DEF Agrees, Resting, Undisturbed
<1> QED
    BY <1>1, <1>2

\* The copies that are held up stay so.
LEMMA WaitKept ==
    ASSUME TypeOK, StalledWait, full \subseteq full', registered \subseteq registered',
           UNCHANGED stalledOnRead,
           \A i \in DOMAIN stalledOnRead, m \in full :
               LET q == stalledOnRead[i] IN
               q \in Migrating /\ HeldUpBy(migrations[q], m) =>
                   q \in Migrating' /\ HeldUpBy(migrations'[q], m)
    PROVE  StalledWait'
<1>1. SUFFICES ASSUME stalledOnRead # <<>>
               PROVE \E m \in full' \cap registered' : \A i \in DOMAIN stalledOnRead :
                         stalledOnRead[i] \in Migrating' /\ HeldUpBy(migrations'[stalledOnRead[i]], m)
    BY DEF StalledWait, HeldUpBy
<1>2. PICK m \in full \cap registered : \A i \in DOMAIN stalledOnRead :
          stalledOnRead[i] \in Migrating /\ HeldUpBy(migrations[stalledOnRead[i]], m)
    BY <1>1 DEF StalledWait
<1>3. m \in full' \cap registered'
    OBVIOUS
<1>4. \A i \in DOMAIN stalledOnRead :
          stalledOnRead[i] \in Migrating' /\ HeldUpBy(migrations'[stalledOnRead[i]], m)
    BY <1>2
<1> QED
    BY <1>3, <1>4

\* A complete copy is not held up by anybody.
LEMMA CompleteIsFree ==
    ASSUME NEW e \in Entry, NEW R, NEW F, NEW at, Body(e, R, F, at), IsComplete(e), NEW m \in Mems
    PROVE  ~HeldUpBy(e, m)
<1>1. Counts(e, R) /\ e.src # e.dest
    BY DEF Body, Sides
<1>2. e.leftToRead = 0 /\ e.unread = {} /\ e.leftToWrite = 0
    BY <1>1, CountsSay DEF IsComplete
<1>3. e.src = m \/ e.dest = m
    BY <1>1 DEF Entry, Mems
<1> QED
    BY <1>2, <1>3 DEF HeldUpBy

\* Reads that are added, answered, or of no concern to the copy of q.
LEMMA CountedReadsAre ==
    ASSUME NEW q, NEW r
    PROVE  /\ UNCHANGED reads => CountedReads(q)' = CountedReads(q)
           /\ reads' = reads \cup {r} => CountedReads(q)' =
                  CountedReads(q) \cup IF r.page = q /\ r.partOfMigration THEN {r} ELSE {}
           /\ reads' = reads \ {r} => CountedReads(q)' = CountedReads(q) \ {r}
    BY DEF CountedReads

\* An entry is put back, or the copy is complete: the others notice nothing.
LEMMA PutBack ==
    ASSUME TypeOK, UNCHANGED setting, NEW p \in Migrating, NEW e \in Entry, NEW rest \in SUBSET Reads,
           \/ PutOrComplete(p, e, rest)
           \/ IsComplete(e) /\ Complete(p, e, rest),
           Body(e, {r \in rest : r.page = p /\ r.partOfMigration}, fresh'[p], location'[p]),
           ReadCursor(e), ReadLinked(e, ReadChain(p)'), WriteCursor(e), WriteLinked(e, WriteChain(p)'),
           CopyLinked(e, events'[<<"COPY", p>>]), IsComplete(e) => events'[<<"COPY", p>>] = 0
    PROVE  /\ Agrees(p)' /\ reads' = rest
           /\ \A q \in Pages \ {p} : /\ q \in Migrating' <=> q \in Migrating
                                     /\ q \in Migrating => migrations'[q] = migrations[q]
           /\ p \in Migrating' \/ IsComplete(e)
           /\ p \in Migrating' => \A m : HeldUpBy(e, m) => HeldUpBy(migrations'[p], m)
<1> DEFINE R == {r \in rest : r.page = p /\ r.partOfMigration}
<1>1. TableTyped /\ p \in Pages
    BY TypesGive DEF TableTyped
<1>2. Sides(e, location'[p]) /\ Counts(e, R) /\ Answers(e, R) /\ Held(e, fresh'[p])
    BY DEF Body
<1>3. IsComplete(e) => R = {} /\ InState(e, "WRITTEN") = Blocks /\ e.leftToRead = 0 /\ e.unread = {}
    BY <1>2, CountsSay DEF IsComplete
<1>4. CASE ~IsComplete(e)
    <2>1. migrations' = Put(p, e) /\ reads' = rest
        BY <1>4 DEF PutOrComplete
    <2>2. /\ Migrating' = Migrating \cup {p} /\ migrations'[p] = e
          /\ \A q \in Migrating \ {p} : migrations'[q] = migrations[q]
        BY <1>1, <2>1, PutIs
    <2>3. CountedReads(p)' = R
        BY <2>1 DEF CountedReads
    <2>4. Agrees(p)'
        BY <2>2, <2>3, AgreesNext
    <2> QED
        BY <2>1, <2>2, <2>4
<1>5. CASE IsComplete(e) /\ e.rolledBack
    <2>1. /\ migrations' = Without(p)
          /\ reads' = {IF r.page = p /\ r.demand THEN [r EXCEPT !.partOfMigration = FALSE] ELSE r
                       : r \in rest}
        BY <1>5 DEF PutOrComplete, Complete
    <2>2. /\ Migrating' = Migrating \ {p}
          /\ \A q \in Migrating \ {p} : migrations'[q] = migrations[q]
        BY <1>1, <2>1, WithoutIs
    <2>3. \A r \in rest : (IF r.page = p /\ r.demand THEN [r EXCEPT !.partOfMigration = FALSE] ELSE r) = r
        <3>1. \A r \in rest : r.page = p => ~r.partOfMigration
            BY <1>3, <1>5
        <3>2. \A r \in rest : ~r.partOfMigration => [r EXCEPT !.partOfMigration = FALSE] = r
            BY DEF Reads
        <3> QED
            BY <3>1, <3>2
    <2>4. reads' = rest
        BY <2>1, <2>3
    <2>5. CountedReads(p)' = {}
        BY <1>3, <1>5, <2>4 DEF CountedReads
    <2>6. ReadChain(p)' = 0
        BY <1>3, <1>5 DEF ReadLinked
    <2>7. WriteChain(p)' = 0
        <3>1. InState(e, "BUFFERED") = {}
            BY <1>3, <1>5 DEF InState
        <3> QED
            BY <3>1 DEF WriteLinked
    <2>8. \A b \in Blocks : location'[p] \in fresh'[p][b]
        <3>1. location'[p] = e.dest
            BY <1>2, <1>5 DEF Sides, Entry, Mems
        <3>2. \A b \in Blocks : e.state[b] = "WRITTEN"
            BY <1>3, <1>5 DEF InState
        <3> QED
            BY <1>2, <3>1, <3>2 DEF Held
    <2>9. events'[<<"COPY", p>>] = 0
        BY <1>5
    <2>10. Resting(p)'
        BY <2>5, <2>6, <2>7, <2>8, <2>9 DEF Resting
    <2>11. Agrees(p)'
        BY <2>2, <2>10 DEF Agrees
    <2> QED
        BY <1>5, <2>2, <2>4, <2>11
<1>6. CASE IsComplete(e) /\ ~e.rolledBack
    <2> DEFINE f == [e EXCEPT !.copied = TRUE]
    <2>1. migrations' = Put(p, f) /\ reads' = rest
        BY <1>6 DEF PutOrComplete, Complete
    <2>2. f \in Entry
        BY DEF Entry
    <2>3. /\ f.src = e.src /\ f.dest = e.dest /\ f.rolledBack = e.rolledBack /\ f.copied
          /\ f.state = e.state /\ f.dirty = e.dirty /\ f.unread = e.unread
          /\ f.leftToRead = e.leftToRead /\ f.leftToCompleteRead = e.leftToCompleteRead
          /\ f.leftToWrite = e.leftToWrite /\ f.nextRead = e.nextRead /\ f.nextWrite = e.nextWrite
        BY DEF Entry
    <2> HIDE DEF f
    <2>4. /\ Migrating' = Migrating \cup {p} /\ migrations'[p] = f
          /\ \A q \in Migrating \ {p} : migrations'[q] = migrations[q]
        BY <1>1, <2>1, <2>2, PutIs
    <2>5. CountedReads(p)' = R
        BY <2>1 DEF CountedReads
    <2>6. \A s : InState(f, s) = InState(e, s)
        BY <2>3 DEF InState
    <2>7. IsComplete(f)
        BY <1>6, <2>3 DEF IsComplete
    <2>8. Sides(f, location'[p])
        BY <1>2, <1>6, <2>3, <2>7 DEF Sides
    <2>9. Counts(f, R) /\ Answers(f, R) /\ Held(f, fresh'[p])
        BY <1>2, <2>3, <2>6 DEF Counts, Answers, Held
    <2>10. ReadCursor(f) /\ ReadLinked(f, ReadChain(p)')
        BY <2>3, <2>6 DEF ReadCursor, ReadLinked
    <2>11. WriteCursor(f) /\ WriteLinked(f, WriteChain(p)')
        BY <2>3, <2>6 DEF WriteCursor, WriteLinked
    <2>12. CopyLinked(f, events'[<<"COPY", p>>])
        BY <1>6 DEF CopyLinked
    <2>13. Agrees(p)'
        BY <2>4, <2>5, <2>8, <2>9, <2>10, <2>11, <2>12, AgreesNext DEF Body
    <2>14. \A m : HeldUpBy(e, m) => HeldUpBy(migrations'[p], m)
        BY <2>3, <2>4 DEF HeldUpBy
    <2> QED
        BY <2>1, <2>4, <2>13, <2>14
<1> QED
    BY <1>4, <1>5, <1>6

\* Only the copy of p changes, and it stays held up by the memories that have no room.
LEMMA OnlyOne ==
    ASSUME IInv, NEW p \in Pages, UNCHANGED setting, Agrees(p)',
           \A q \in Pages \ {p} : Undisturbed(q),
           full \subseteq full', registered \subseteq registered', UNCHANGED stalledOnRead,
           \A m \in full :
               p \in Migrating /\ Contains(stalledOnRead, p) /\ HeldUpBy(migrations[p], m) =>
                   p \in Migrating' /\ HeldUpBy(migrations'[p], m)
    PROVE  (\A q \in Pages : Agrees(q)') /\ StalledWait'
<1>1. \A q \in Pages : Agrees(q)'
    BY Elsewhere DEF IInv
<1>2. TypeOK /\ StalledWait /\ stalledOnRead \in Seq(Pages)
    BY TypesGive DEF IInv
<1>3. \A i \in DOMAIN stalledOnRead, m \in full :
          LET q == stalledOnRead[i] IN
          q \in Migrating /\ HeldUpBy(migrations[q], m) => q \in Migrating' /\ HeldUpBy(migrations'[q], m)
    <2>1. SUFFICES ASSUME NEW i \in DOMAIN stalledOnRead, NEW m \in full, NEW q, q = stalledOnRead[i],
                          q \in Migrating, HeldUpBy(migrations[q], m)
                   PROVE  q \in Migrating' /\ HeldUpBy(migrations'[q], m)
        OBVIOUS
    <2>2. q \in Pages /\ Contains(stalledOnRead, q)
        BY <1>2, <2>1, OccurrencesNone, LenProperties, ElementOfSeq
    <2>3. CASE q = p
        BY <2>1, <2>2, <2>3
    <2>4. CASE q # p
        BY <2>1, <2>2, <2>4 DEF Undisturbed
    <2> QED
        BY <2>3, <2>4
<1>4. StalledWait'
    BY <1>2, <1>3, WaitKept
<1> QED
    BY <1>1, <1>4

\* The chains when the lists of stalled copies stay as they are.
LEMMA ChainsNext ==
    ASSUME UNCHANGED stallVars, NEW q
    PROVE  /\ ReadChain(q)' = events'[<<"READ", q>>] + Occurrences(stalledOnRead, q)
           /\ WriteChain(q)' = events'[<<"WRITE", q>>] + Occurrences(stalledOnWrite, q)
    BY DEF ReadChain, WriteChain, stallVars, Occurrences

\* With the lists as they are, who is not concerned.
LEMMA UndisturbedBy ==
    ASSUME UNCHANGED stallVars, NEW q \in Pages,
           q \in Migrating' <=> q \in Migrating,
           q \in Migrating => migrations'[q] = migrations[q],
           CountedReads(q)' = CountedReads(q),
           \A k \in Kinds : events'[<<k, q>>] = events[<<k, q>>],
           fresh'[q] = fresh[q], location'[q] = location[q]
    PROVE  Undisturbed(q)
<1>1. "READ" \in Kinds /\ "WRITE" \in Kinds /\ "COPY" \in Kinds
    BY DEF Kinds
<1> QED
    BY <1>1, ChainsNext DEF Undisturbed, ReadChain, WriteChain

\* No copy is concerned at all.
LEMMA NoneConcerned ==
    ASSUME IInv, UNCHANGED <<setting, location, migrations, events, fresh, stallVars>>,
           \A q \in Pages : CountedReads(q)' = CountedReads(q),
           full \subseteq full', registered \subseteq registered'
    PROVE  (\A q \in Pages : Agrees(q)') /\ StalledWait'
<1>1. Migrating' = Migrating
    BY DEF Migrating
<1>2. \A q \in Pages : Undisturbed(q)
    BY <1>1, UndisturbedBy
<1>3. \A q \in Pages : Agrees(q)'
    BY <1>2, Elsewhere DEF IInv
<1>4. StalledWait'
    BY <1>1, WaitKept DEF IInv, stallVars
<1> QED
    BY <1>3, <1>4

\* A read that is not part of a copy, or a request that is refused.
LEMMA PassedOn ==
    ASSUME IInv, NEW p \in Pages, NEW b \in Blocks, NEW m \in Mems, UNCHANGED migrations,
           \/ Refuse(m)
           \/ /\ Take(m)
              /\ reads' = reads \cup {Read(p, b, m, TRUE, FALSE)}
              /\ UNCHANGED <<events, notifications, fresh, placeVars, stallVars, stalledCallers, registered>>
    PROVE  (\A q \in Pages : Agrees(q)') /\ StalledWait'
<1>1. TypeOK
    BY DEF IInv
<1>2. CASE Refuse(m)
    <2>1. full \subseteq full' /\ registered \subseteq registered'
        BY <1>1, <1>2, MemTypedKept
    <2>2. UNCHANGED <<setting, location, migrations, events, fresh, stallVars>> /\ UNCHANGED reads
        BY <1>2 DEF Refuse, placeVars
    <2>3. \A q \in Pages : CountedReads(q)' = CountedReads(q)
        BY <2>2, CountedReadsAre
    <2> QED
        BY <2>1, <2>2, <2>3, NoneConcerned
<1>3. CASE /\ Take(m)
           /\ reads' = reads \cup {Read(p, b, m, TRUE, FALSE)}
           /\ UNCHANGED <<events, notifications, fresh, placeVars, stallVars, stalledCallers, registered>>
    <2>1. full \subseteq full' /\ registered \subseteq registered'
        BY <1>1, <1>3, MemTypedKept
    <2>2. UNCHANGED <<setting, location, migrations, events, fresh, stallVars>>
        BY <1>3 DEF placeVars
    <2>3. \A q \in Pages : CountedReads(q)' = CountedReads(q)
        <3> DEFINE r == Read(p, b, m, TRUE, FALSE)
        <3>1. ~r.partOfMigration
            BY DEF Read
        <3>2. reads' = reads \cup {r}
            BY <1>3
        <3> HIDE DEF r
        <3> QED
            BY <3>1, <3>2 DEF CountedReads
    <2> QED
        BY <2>1, <2>2, <2>3, NoneConcerned
<1> QED
    BY <1>2, <1>3

\* What is known of a copy before a step.
LEMMA CopyBefore ==
    ASSUME IInv, NEW p \in Migrating
    PROVE  LET old == migrations[p] IN
           /\ p \in Pages /\ old \in Entry
           /\ Body(old, CountedReads(p), fresh[p], location[p])
           /\ ReadCursor(old) /\ ReadLinked(old, ReadChain(p))
           /\ WriteCursor(old) /\ WriteLinked(old, WriteChain(p))
           /\ CopyLinked(old, events[<<"COPY", p>>])
           /\ Sides(old, location[p]) /\ Counts(old, CountedReads(p))
           /\ IsComplete(old) \/ events[<<"COPY", p>>] = 0
<1>1. p \in Pages /\ migrations[p] \in Entry /\ Agrees(p)
    BY TypesGive DEF IInv, TableTyped
<1> QED
    BY <1>1 DEF Agrees, EntryAgrees, Body, CopyLinked

\* Which events a request for page p starts.
LEMMA StartedEvents ==
    ASSUME NEW p, NEW e, NEW k, NEW q
    PROVE  /\ <<k, q>> \in ReadOnEvent(p, e) <=> k = "READ" /\ q = p /\ AtThreshold(e)
           /\ <<k, q>> \in WriteOnEvent(p, e) <=> k = "WRITE" /\ q = p /\ e.nextWrite = -1
<1>1. CASE AtThreshold(e)
    BY <1>1 DEF ReadOnEvent, WriteOnEvent
<1>2. CASE ~AtThreshold(e)
    BY <1>2 DEF ReadOnEvent, WriteOnEvent
<1> QED
    BY <1>1, <1>2

\* Events of page p are added, rd and wr saying which.
LEMMA AddedFor ==
    ASSUME TypeOK, UNCHANGED stallVars, NEW p \in Pages, NEW rd \in BOOLEAN, NEW wr \in BOOLEAN,
           NEW new, AddEvents(new),
           \A k \in Kinds, q \in Pages :
               <<k, q>> \in new <=> q = p /\ ((k = "READ" /\ rd) \/ (k = "WRITE" /\ wr))
    PROVE  /\ ReadChain(p)' = ReadChain(p) + IF rd THEN 1 ELSE 0
           /\ WriteChain(p)' = WriteChain(p) + IF wr THEN 1 ELSE 0
           /\ events'[<<"COPY", p>>] = events[<<"COPY", p>>]
           /\ \A k \in Kinds, q \in Pages \ {p} : events'[<<k, q>>] = events[<<k, q>>]
<1>1. \A k \in Kinds, q \in Pages :
          events'[<<k, q>>] = events[<<k, q>>] + IF <<k, q>> \in new THEN 1 ELSE 0
    BY AddEventsIs
<1>2. /\ "READ" \in Kinds /\ "WRITE" \in Kinds /\ "COPY" \in Kinds
      /\ events[<<"READ", p>>] \in Nat /\ events[<<"WRITE", p>>] \in Nat /\ events[<<"COPY", p>>] \in Nat
      /\ Occurrences(stalledOnRead, p) \in Nat /\ Occurrences(stalledOnWrite, p) \in Nat
    BY ChainsAre
<1>3. events'[<<"READ", p>>] = events[<<"READ", p>>] + IF rd THEN 1 ELSE 0
    <2>1. <<"READ", p>> \in new <=> rd
        BY <1>2
    <2> QED
        BY <1>1, <1>2, <2>1
<1>4. events'[<<"WRITE", p>>] = events[<<"WRITE", p>>] + IF wr THEN 1 ELSE 0
    <2>1. <<"WRITE", p>> \in new <=> wr
        BY <1>2
    <2> QED
        BY <1>1, <1>2, <2>1
<1>5. events'[<<"COPY", p>>] = events[<<"COPY", p>>]
    <2>1. <<"COPY", p>> \notin new
        BY <1>2
    <2> QED
        BY <1>1, <1>2, <2>1
<1>6. ASSUME NEW k \in Kinds, NEW q \in Pages \ {p} PROVE events'[<<k, q>>] = events[<<k, q>>]
    <2>1. <<k, q>> \notin new
        BY <1>6
    <2>2. events[<<k, q>>] \in Nat
        BY <1>6 DEF TypeOK
    <2> QED
        BY <1>1, <1>6, <2>1, <2>2
<1>7. ReadChain(p)' = ReadChain(p) + IF rd THEN 1 ELSE 0
    <2>1. ReadChain(p)' = events'[<<"READ", p>>] + Occurrences(stalledOnRead, p)
        BY ChainsNext
    <2>2. ReadChain(p) = events[<<"READ", p>>] + Occurrences(stalledOnRead, p)
        BY DEF ReadChain
    <2> QED
        BY <1>2, <1>3, <2>1, <2>2
<1>8. WriteChain(p)' = WriteChain(p) + IF wr THEN 1 ELSE 0
    <2>1. WriteChain(p)' = events'[<<"WRITE", p>>] + Occurrences(stalledOnWrite, p)
        BY ChainsNext
    <2>2. WriteChain(p) = events[<<"WRITE", p>>] + Occurrences(stalledOnWrite, p)
        BY DEF WriteChain
    <2> QED
        BY <1>2, <1>4, <2>1, <2>2
<1> QED
    BY <1>5, <1>6, <1>7, <1>8

\* Of the other pages nothing changes but where they stalled.
OthersKept(p) ==
    /\ \A q \in Pages \ {p} :
           /\ q \in Migrating' <=> q \in Migrating
           /\ q \in Migrating => migrations'[q] = migrations[q]
           /\ CountedReads(q)' = CountedReads(q) /\ fresh'[q] = fresh[q]
    /\ \A k \in Kinds, q \in Pages \ {p} : events'[<<k, q>>] = events[<<k, q>>]

\* With the entry f the copy of p is held up as it was.
StaysHeld(p, f) ==
    p \in Migrating /\ Contains(stalledOnRead, p) =>
        \A m \in full : HeldUpBy(migrations[p], m) => HeldUpBy(f, m)

\* A copy gets the entry f, and nothing else is concerned.
LEMMA CopyChanges ==
    ASSUME IInv, UNCHANGED <<setting, location>>, UNCHANGED stallVars,
           full \subseteq full', registered \subseteq registered',
           NEW p \in Pages, NEW f \in Entry, p \in Migrating', migrations'[p] = f,
           OthersKept(p),
           Body(f, CountedReads(p)', fresh'[p], location[p]),
           ReadCursor(f), ReadLinked(f, ReadChain(p)'), WriteCursor(f), WriteLinked(f, WriteChain(p)'),
           CopyLinked(f, events'[<<"COPY", p>>]),
           StaysHeld(p, f)
    PROVE  (\A q \in Pages : Agrees(q)') /\ StalledWait'
<1>1. UNCHANGED setting /\ location'[p] = location[p] /\ UNCHANGED stalledOnRead
    BY DEF stallVars
<1>2. Agrees(p)'
    BY <1>1, AgreesNext
<1>3. ASSUME NEW q \in Pages \ {p} PROVE Undisturbed(q)
    <2>1. \A k \in Kinds : events'[<<k, q>>] = events[<<k, q>>]
        BY <1>3 DEF OthersKept
    <2>2. /\ (q \in Migrating' <=> q \in Migrating) /\ (q \in Migrating => migrations'[q] = migrations[q])
          /\ CountedReads(q)' = CountedReads(q) /\ fresh'[q] = fresh[q] /\ location'[q] = location[q]
        BY <1>3 DEF OthersKept
    <2> QED
        BY <2>1, <2>2, UndisturbedBy
<1>4. \A m \in full :
          p \in Migrating /\ Contains(stalledOnRead, p) /\ HeldUpBy(migrations[p], m) =>
              p \in Migrating' /\ HeldUpBy(migrations'[p], m)
    BY DEF StaysHeld
<1> QED
    BY <1>1, <1>2, <1>3, <1>4, OnlyOne

\* Two entries that differ in what is next at most.
Alike(e, f) ==
    /\ Same(e, f) /\ f.state = e.state /\ f.dirty = e.dirty /\ f.unread = e.unread
    /\ f.leftToRead = e.leftToRead /\ f.leftToCompleteRead = e.leftToCompleteRead
    /\ f.leftToWrite = e.leftToWrite

\* What starting a chain leaves of an entry.
LEMMA StartingKeeps ==
    ASSUME NEW e \in Entry, NEW b \in Blocks
    PROVE  /\ ReadOn(e) \in Entry /\ Alike(e, ReadOn(e)) /\ ReadOn(e).nextWrite = e.nextWrite
           /\ WriteOn(e, b) \in Entry /\ Alike(e, WriteOn(e, b)) /\ WriteOn(e, b).nextRead = e.nextRead
<1>1. ReadOn(e) \in Entry /\ Alike(e, ReadOn(e)) /\ ReadOn(e).nextWrite = e.nextWrite
    <2>1. PICK n \in Nat \cup {-1} : ReadOn(e) = [e EXCEPT !.nextRead = n]
        BY ReadOnTyped
    <2>2. ReadOn(e) \in Entry
        BY ReadOnTyped
    <2> DEFINE f == ReadOn(e)
    <2>3. f = [e EXCEPT !.nextRead = n]
        BY <2>1
    <2> HIDE DEF f
    <2>4. Alike(e, f) /\ f.nextWrite = e.nextWrite
        BY <2>3 DEF Alike, Same, Entry
    <2> QED
        BY <2>2, <2>4 DEF f
<1>2. WriteOn(e, b) \in Entry /\ Alike(e, WriteOn(e, b)) /\ WriteOn(e, b).nextRead = e.nextRead
    BY WriteOnTyped DEF Alike, Same, Entry
<1> QED
    BY <1>1, <1>2

\* Entries that are alike are held up by the same memories.
LEMMA AlikeHeldUp ==
    ASSUME NEW e, NEW f, Alike(e, f)
    PROVE  /\ \A m : HeldUpBy(e, m) <=> HeldUpBy(f, m)
           /\ \A s : InState(f, s) = InState(e, s)
           /\ IsComplete(f) <=> IsComplete(e)
    BY DEF Alike, Same, HeldUpBy, InState, IsComplete

\* What a read and a write of block b make of the entry e.
BeginRead(e, b) == [e EXCEPT !.state[b] = "READING", !.leftToRead = Dec(@)]
BufferUnread(e, b) == [e EXCEPT !.state[b] = "BUFFERED", !.dirty[b] = TRUE, !.leftToRead = Dec(@),
                                !.unread = @ \cup {b}]

\* The same, of events that are exactly these.
Exactly(new, p, rd, wr) ==
    \A k \in Kinds, q \in Pages :
        <<k, q>> \in new <=> q = p /\ ((k = "READ" /\ rd) \/ (k = "WRITE" /\ wr))

LEMMA ExactlyAdded ==
    ASSUME TypeOK, UNCHANGED stallVars, NEW p \in Pages, NEW rd \in BOOLEAN, NEW wr \in BOOLEAN,
           NEW new, AddEvents(new), Exactly(new, p, rd, wr)
    PROVE  /\ ReadChain(p)' = ReadChain(p) + IF rd THEN 1 ELSE 0
           /\ WriteChain(p)' = WriteChain(p) + IF wr THEN 1 ELSE 0
           /\ events'[<<"COPY", p>>] = events[<<"COPY", p>>]
           /\ \A k \in Kinds, q \in Pages \ {p} : events'[<<k, q>>] = events[<<k, q>>]
BY AddedFor DEF Exactly

\* A cache's read begins that is part of the copy of p; old is the entry, or the new one.
LEMMA ReadStarts ==
    ASSUME IInv, NEW p \in Pages, NEW b \in Blocks, NEW old \in Entry,
           p \in Migrating => migrations[p] = old,
           Body(old, CountedReads(p), fresh[p], location[p]),
           ReadCursor(old), ReadLinked(old, ReadChain(p)),
           WriteCursor(old), WriteLinked(old, WriteChain(p)), CopyLinked(old, events[<<"COPY", p>>]),
           old.state[b] = "NOT_READ", ~old.rolledBack,
           Accepts(location[p]), Take(location[p]),
           migrations' = Put(p, ReadOn(BeginRead(old, b))), AddEvents(ReadOnEvent(p, BeginRead(old, b))),
           reads' = reads \cup {Read(p, b, location[p], TRUE, TRUE)},
           UNCHANGED <<notifications, fresh, placeVars, stallVars, stalledCallers, registered>>
    PROVE  (\A q \in Pages : Agrees(q)') /\ StalledWait'
<1> DEFINE g == BeginRead(old, b)
           r == Read(p, b, location[p], TRUE, TRUE)
           f == ReadOn(g)
<1>0. /\ TypeOK /\ TableTyped /\ location[p] \in Mems
      /\ Sides(old, location[p]) /\ Counts(old, CountedReads(p))
    BY TypesGive DEF IInv, Body
<1>1. /\ g \in Entry /\ Same(old, g) /\ g.nextRead = old.nextRead /\ g.nextWrite = old.nextWrite
      /\ g.state = [old.state EXCEPT ![b] = "READING"] /\ g.dirty = old.dirty /\ g.unread = old.unread
      /\ g.leftToRead = Dec(old.leftToRead) /\ g.leftToCompleteRead = old.leftToCompleteRead
      /\ g.leftToWrite = old.leftToWrite
    <2>1. old.leftToRead \in Nat
        BY <1>0 DEF Entry
    <2>2. Dec(old.leftToRead) \in Nat
        BY <2>1, DecIs
    <2> QED
        BY <1>0, <2>2 DEF Entry, Same, BeginRead
<1>2. r.block = b /\ r.from = old.src /\ r.page = p /\ r.partOfMigration
    BY <1>0 DEF Read, Sides
<1>3. UNCHANGED setting /\ fresh'[p] = fresh[p] /\ location'[p] = location[p] /\ UNCHANGED stalledOnRead
    BY DEF placeVars, stallVars
<1>4. /\ f \in Entry /\ Same(old, f) /\ f.nextWrite = old.nextWrite
      /\ f.state = [old.state EXCEPT ![b] = "READING"] /\ f.dirty = old.dirty /\ f.unread = old.unread
      /\ f.leftToRead = Dec(old.leftToRead) /\ f.leftToCompleteRead = old.leftToCompleteRead
      /\ f.leftToWrite = old.leftToWrite
    <2>1. PICK n \in Nat \cup {-1} : f = [g EXCEPT !.nextRead = n]
        BY <1>1, ReadOnTyped
    <2>2. f \in Entry
        BY <1>1, ReadOnTyped
    <2> HIDE DEF f
    <2> QED
        BY <1>1, <2>1, <2>2 DEF Same, Entry
<1>5. migrations' = Put(p, f) /\ AddEvents(ReadOnEvent(p, g)) /\ reads' = reads \cup {r} /\ f = ReadOn(g)
    OBVIOUS
<1> HIDE DEF f, g, r
<1>6. /\ Body(f, CountedReads(p) \cup {r}, fresh[p], location[p])
      /\ ~old.copied /\ old.leftToWrite > 0 /\ old.leftToRead > 0
      /\ InState(f, "BUFFERED") = InState(old, "BUFFERED")
    <2>1. Began(old, f, b)
        BY <1>4 DEF Began
    <2> QED
        BY <1>0, <1>2, <2>1, BodyReading
<1>7. /\ Body(g, CountedReads(p) \cup {r}, fresh[p], location[p])
      /\ g.leftToRead = old.leftToRead - 1
      /\ InState(g, "NOT_READ") = InState(old, "NOT_READ") \ {b}
    <2>1. Began(old, g, b)
        BY <1>1 DEF Began
    <2> QED
        BY <1>0, <1>2, <2>1, BodyReading
<1>8. UNCHANGED stallVars /\ AtThreshold(g) \in BOOLEAN
    BY DEF AtThreshold
<1>9. /\ events'[<<"COPY", p>>] = events[<<"COPY", p>>]
      /\ \A k \in Kinds, q \in Pages \ {p} : events'[<<k, q>>] = events[<<k, q>>]
      /\ ReadChain(p)' = ReadChain(p) + IF AtThreshold(g) THEN 1 ELSE 0
      /\ WriteChain(p)' = WriteChain(p) + IF FALSE THEN 1 ELSE 0
    <2>1. \A k \in Kinds, q \in Pages : <<k, q>> \in ReadOnEvent(p, g) <=>
              q = p /\ ((k = "READ" /\ AtThreshold(g)) \/ (k = "WRITE" /\ FALSE))
        BY StartedEvents
    <2> QED
        <3>1. Exactly(ReadOnEvent(p, g), p, AtThreshold(g), FALSE)
            BY <2>1 DEF Exactly
        <3>2. AddEvents(ReadOnEvent(p, g)) /\ TypeOK
            BY <1>0, <1>5
        <3> QED
            BY <1>8, <3>1, <3>2, ExactlyAdded
<1>10. WriteChain(p)' = WriteChain(p)
    BY <1>0, <1>9 DEF WriteLinked
<1>11. ReadCursor(f) /\ ReadLinked(f, ReadChain(p)')
    <2>1. old.leftToRead \in 1 .. NumBlocks
        BY <1>0, <1>6, CountsSay
    <2>2. g.leftToRead = Cardinality(InState(g, "NOT_READ"))
        BY <1>7 DEF Body, Counts
    <2> QED
        BY <1>0, <1>1, <1>7, <1>9, <1>5, <2>1, <2>2, ReadOnLinks
<1>12. WriteCursor(f) /\ WriteLinked(f, WriteChain(p)')
    BY <1>0, <1>4, <1>6, <1>10, WriteLinksKept
<1>13. CopyLinked(f, events'[<<"COPY", p>>])
    <2>1. ~IsComplete(old)
        BY <1>6 DEF IsComplete
    <2> QED
        BY <1>0, <1>9, <2>1 DEF CopyLinked
<1>14. /\ Migrating' = Migrating \cup {p} /\ migrations'[p] = f
       /\ \A q \in Migrating \ {p} : migrations'[q] = migrations[q]
    BY <1>0, <1>4, <1>5, PutIs
<1>15. CountedReads(p)' = CountedReads(p) \cup {r} /\ \A q \in Pages \ {p} : CountedReads(q)' = CountedReads(q)
    <2>1. reads' = reads \cup {r} /\ r.page = p /\ r.partOfMigration
        BY <1>2, <1>5
    <2> QED
        BY <2>1 DEF CountedReads
<1>16. full \subseteq full' /\ registered \subseteq registered'
    BY <1>0, MemTypedKept
<1>17. \A m \in full : HeldUpBy(old, m) => HeldUpBy(f, m)
    <2>1. old.src \notin full
        BY <1>0 DEF Accepts, Sides
    <2> QED
        BY <1>4, <2>1 DEF HeldUpBy, Same
<1>18. UNCHANGED <<setting, location>> /\ \A q \in Pages \ {p} : fresh'[q] = fresh[q]
    BY DEF placeVars
<1>19. OthersKept(p) /\ StaysHeld(p, f)
    BY <1>9, <1>14, <1>15, <1>17, <1>18 DEF OthersKept, StaysHeld
<1>20. Body(f, CountedReads(p)', fresh'[p], location[p])
    BY <1>3, <1>6, <1>15
<1> QED
    BY <1>4, <1>8, <1>9, <1>10, <1>11, <1>12, <1>13, <1>14, <1>16, <1>18, <1>19, <1>20, CopyChanges

\* A block is written before it is read; old is the entry, or the new one.
LEMMA WriteStarts ==
    ASSUME IInv, NEW p \in Pages, NEW b \in Blocks, NEW old \in Entry,
           p \in Migrating => migrations[p] = old,
           Body(old, CountedReads(p), fresh[p], location[p]),
           ReadCursor(old), ReadLinked(old, ReadChain(p)),
           WriteCursor(old), WriteLinked(old, WriteChain(p)), CopyLinked(old, events[<<"COPY", p>>]),
           old.state[b] = "NOT_READ", ~old.rolledBack,
           migrations' = Put(p, WriteOn(ReadOn(BufferUnread(old, b)), b)),
           AddEvents(ReadOnEvent(p, BufferUnread(old, b)) \cup WriteOnEvent(p, BufferUnread(old, b))),
           fresh' = [fresh EXCEPT ![p][b] = {"buffer"}],
           UNCHANGED <<reads, notifications, placeVars, stallVars, memVars>>
    PROVE  (\A q \in Pages : Agrees(q)') /\ StalledWait'
<1> DEFINE g == BufferUnread(old, b)
           h == ReadOn(g)
           f == WriteOn(h, b)
<1>1. /\ TypeOK /\ TableTyped
      /\ Sides(old, location[p]) /\ Counts(old, CountedReads(p))
    BY TypesGive DEF IInv, Body
<1>2. /\ migrations' = Put(p, f)
      /\ UNCHANGED <<reads, notifications, placeVars, stallVars, memVars>>
    OBVIOUS
<1>3. ~old.rolledBack
    OBVIOUS
<1>4. /\ g \in Entry /\ Same(old, g) /\ g.nextRead = old.nextRead /\ g.nextWrite = old.nextWrite
      /\ g.state = [old.state EXCEPT ![b] = "BUFFERED"] /\ g.dirty = [old.dirty EXCEPT ![b] = TRUE]
      /\ g.unread = old.unread \cup {b}
      /\ g.leftToRead = Dec(old.leftToRead) /\ g.leftToCompleteRead = old.leftToCompleteRead
      /\ g.leftToWrite = old.leftToWrite
    <2>1. old.leftToRead \in Nat
        BY <1>1 DEF Entry
    <2>2. Dec(old.leftToRead) \in Nat
        BY <2>1, DecIs
    <2> QED
        BY <1>1, <2>2 DEF Entry, Same, BufferUnread
<1>5. h \in Entry /\ Alike(g, h) /\ h.nextWrite = g.nextWrite
    BY <1>4, StartingKeeps
<1>6. f \in Entry /\ Alike(h, f) /\ f.nextRead = h.nextRead
    BY <1>5, StartingKeeps
<1>7. AddEvents(ReadOnEvent(p, g) \cup WriteOnEvent(p, g)) /\ h = ReadOn(g) /\ f = WriteOn(h, b)
    OBVIOUS
<1> HIDE DEF f, h, g
<1>8. /\ fresh' \in [Pages -> [Blocks -> SUBSET {"dram", "pcm", "buffer"}]]
      /\ fresh'[p] = [fresh[p] EXCEPT ![b] = {"buffer"}]
      /\ \A q \in Pages \ {p} : fresh'[q] = fresh[q]
    BY <1>1, <1>2, WrittenIs
<1>9. Rehoused(fresh[p], fresh'[p], b, {"buffer"})
    BY <1>1, <1>8 DEF TypeOK, Rehoused
<1>10. /\ Body(g, CountedReads(p), fresh'[p], location[p])
      /\ ~old.copied /\ old.leftToWrite > 0
      /\ old.leftToRead > 0 /\ g.leftToRead = old.leftToRead - 1
      /\ InState(g, "NOT_READ") = InState(old, "NOT_READ") \ {b}
      /\ InState(g, "BUFFERED") = InState(old, "BUFFERED") \cup {b}
    <2>1. Body(g, CountedReads(p), fresh'[p], location[p])
        BY <1>1, <1>2, <1>3, <1>4, <1>9, BodyUnread
    <2>2. /\ ~old.copied /\ old.leftToWrite > 0
          /\ old.leftToRead > 0 /\ g.leftToRead = old.leftToRead - 1
        <3>1. old.leftToWrite > 0 /\ old.leftToRead > 0 /\ old.leftToRead \in 0 .. NumBlocks
            BY <1>1, CountsSay
        <3>2. old.leftToRead \in Nat /\ old.leftToRead \in 1 .. NumBlocks
            BY <3>1, PageCopyAssumption
        <3>3. g.leftToRead = old.leftToRead - 1
            BY <1>4, <3>2, DecIs
        <3>4. ~old.copied
            BY <1>1, <3>1 DEF Sides, IsComplete
        <3> QED
            BY <3>1, <3>3, <3>4
    <2>3. /\ InState(g, "NOT_READ") = InState(old, "NOT_READ") \ {b}
          /\ InState(g, "BUFFERED") = InState(old, "BUFFERED") \cup {b}
        BY <1>1, <1>2, <1>3, <1>4, <1>9, BodyUnread
    <2> QED
        BY <2>1, <2>2, <2>3
<1>11. Body(h, CountedReads(p), fresh'[p], location[p])
    BY <1>4, <1>5, <1>10, BodySame DEF Alike
<1>12. Body(f, CountedReads(p), fresh'[p], location[p])
    BY <1>5, <1>6, <1>11, BodySame DEF Alike
<1>13. UNCHANGED stallVars /\ AtThreshold(g) \in BOOLEAN /\ (g.nextWrite = -1) \in BOOLEAN
    BY <1>2 DEF AtThreshold
<1>14. /\ events'[<<"COPY", p>>] = events[<<"COPY", p>>]
       /\ \A k \in Kinds, q \in Pages \ {p} : events'[<<k, q>>] = events[<<k, q>>]
       /\ ReadChain(p)' = ReadChain(p) + IF AtThreshold(g) THEN 1 ELSE 0
       /\ WriteChain(p)' = WriteChain(p) + IF g.nextWrite = -1 THEN 1 ELSE 0
    <2> DEFINE rd == AtThreshold(g)
               wr == g.nextWrite = -1
               new == ReadOnEvent(p, g) \cup WriteOnEvent(p, g)
    <2>1. \A k \in Kinds, q \in Pages :
              <<k, q>> \in new <=> q = p /\ ((k = "READ" /\ rd) \/ (k = "WRITE" /\ wr))
        BY StartedEvents
    <2>2. rd \in BOOLEAN /\ wr \in BOOLEAN /\ AddEvents(new)
        BY <1>2, <1>13, <1>7
    <2> HIDE DEF rd, wr, new
    <2>3. /\ events'[<<"COPY", p>>] = events[<<"COPY", p>>]
          /\ \A k \in Kinds, q \in Pages \ {p} : events'[<<k, q>>] = events[<<k, q>>]
          /\ ReadChain(p)' = ReadChain(p) + IF rd THEN 1 ELSE 0
          /\ WriteChain(p)' = WriteChain(p) + IF wr THEN 1 ELSE 0
        BY <1>1, <1>13, <2>1, <2>2, AddedFor
    <2> QED
        BY <2>3 DEF rd, wr
<1>15. ReadCursor(f) /\ ReadLinked(f, ReadChain(p)')
    <2>1. old.leftToRead \in 1 .. NumBlocks
        BY <1>1, <1>10, CountsSay
    <2>2. g.leftToRead = Cardinality(InState(g, "NOT_READ"))
        BY <1>10 DEF Body, Counts
    <2>3. ReadCursor(h) /\ ReadLinked(h, ReadChain(p)')
        BY <1>1, <1>3, <1>4, <1>10, <1>14, <1>7, <2>1, <2>2, ReadOnLinks
    <2> QED
        BY <1>5, <1>6, <2>3, AlikeHeldUp, ReadLinksKept DEF Alike
<1>16. WriteCursor(f) /\ WriteLinked(f, WriteChain(p)')
    <2>1. InState(h, "BUFFERED") = InState(old, "BUFFERED") \cup {b} /\ h.nextWrite = old.nextWrite
        BY <1>4, <1>5, <1>10, AlikeHeldUp
    <2> QED
        BY <1>1, <1>4, <1>5, <1>10, <1>14, <1>7, <2>1, WriteOnLinks
<1>17. CopyLinked(f, events'[<<"COPY", p>>])
    <2>1. ~IsComplete(old)
        BY <1>10 DEF IsComplete
    <2> QED
        BY <1>1, <1>14, <2>1 DEF CopyLinked
<1>18. /\ p \in Migrating' /\ migrations'[p] = f
       /\ \A q \in Pages \ {p} : /\ q \in Migrating' <=> q \in Migrating
                                 /\ q \in Migrating => migrations'[q] = migrations[q]
    BY <1>1, <1>2, <1>6, PutIs
<1>19. \A q \in Pages : CountedReads(q)' = CountedReads(q)
    BY <1>2 DEF CountedReads
<1>20. \A m \in full : HeldUpBy(old, m) => HeldUpBy(f, m)
    <2>1. \A m : HeldUpBy(old, m) => HeldUpBy(g, m)
        BY <1>4 DEF HeldUpBy, Same
    <2> QED
        BY <1>5, <1>6, <2>1, AlikeHeldUp
<1>21. /\ UNCHANGED <<setting, location>> /\ full \subseteq full' /\ registered \subseteq registered'
    BY <1>2 DEF placeVars, memVars
<1>22. OthersKept(p) /\ StaysHeld(p, f)
    BY <1>8, <1>14, <1>18, <1>19, <1>20 DEF OthersKept, StaysHeld
<1>23. Body(f, CountedReads(p)', fresh'[p], location[p])
    BY <1>12, <1>19
<1> QED
    BY <1>6, <1>13, <1>14, <1>15, <1>16, <1>17, <1>18, <1>21, <1>22, <1>23, CopyChanges

-----------------------------------------------------------------------------
(* Requests for a page that is being copied *)

\* A cache joins a read.
LEMMA ReadJoinsAgrees ==
    ASSUME IInv, NEW p \in Migrating, NEW b \in Blocks, ReadJoins(p, b)
    PROVE  (\A q \in Pages : Agrees(q)') /\ StalledWait'
<1> DEFINE old == migrations[p]
           f == [old EXCEPT !.callers = @ \cup {b}]
<1>1. /\ TypeOK /\ TableTyped /\ p \in Pages /\ old \in Entry
      /\ Body(old, CountedReads(p), fresh[p], location[p])
      /\ ReadCursor(old) /\ ReadLinked(old, ReadChain(p))
      /\ WriteCursor(old) /\ WriteLinked(old, WriteChain(p))
      /\ CopyLinked(old, events[<<"COPY", p>>])
    BY CopyBefore, TypesGive DEF IInv
<1>2. /\ migrations' = [migrations EXCEPT ![p] = f]
      /\ UNCHANGED <<events, reads, notifications, fresh, placeVars, stallVars, memVars>>
    BY DEF ReadJoins
<1>3. f \in Entry /\ Alike(old, f) /\ f.nextRead = old.nextRead /\ f.nextWrite = old.nextWrite
    BY <1>1 DEF Entry, Alike, Same
<1> HIDE DEF f, old
<1>4. /\ Migrating' = Migrating /\ migrations'[p] = f
      /\ \A q \in Migrating \ {p} : migrations'[q] = migrations[q]
    BY <1>1, <1>2, <1>3, ChangeIs
<1>5. \A q \in Pages : CountedReads(q)' = CountedReads(q)
    BY <1>2 DEF CountedReads
<1>6. Body(f, CountedReads(p), fresh[p], location[p])
    BY <1>1, <1>3, BodySame DEF Alike
<1>7. ReadCursor(f) /\ ReadLinked(f, ReadChain(p)) /\ WriteCursor(f) /\ WriteLinked(f, WriteChain(p))
    BY <1>1, <1>3, AlikeHeldUp, ReadLinksKept, WriteLinksKept DEF Alike
<1>8. CopyLinked(f, events[<<"COPY", p>>])
    BY <1>1, <1>3, AlikeHeldUp DEF CopyLinked, Alike, Same
<1>9. ReadChain(p)' = ReadChain(p) /\ WriteChain(p)' = WriteChain(p)
    BY <1>2, ChainsNext DEF ReadChain, WriteChain
<1>10. \A m \in full : HeldUpBy(old, m) => HeldUpBy(f, m)
    BY <1>3, AlikeHeldUp
<1>11. /\ UNCHANGED <<setting, location>> /\ UNCHANGED stallVars /\ UNCHANGED fresh /\ UNCHANGED events
       /\ full \subseteq full' /\ registered \subseteq registered'
    BY <1>2 DEF placeVars, memVars
<1>12. /\ Body(f, CountedReads(p)', fresh'[p], location[p])
       /\ ReadLinked(f, ReadChain(p)') /\ WriteLinked(f, WriteChain(p)')
       /\ CopyLinked(f, events'[<<"COPY", p>>])
    BY <1>1, <1>5, <1>6, <1>7, <1>8, <1>9, <1>11
<1>13. OthersKept(p) /\ StaysHeld(p, f)
    BY <1>4, <1>5, <1>10, <1>11 DEF OthersKept, StaysHeld, old
<1> QED
    BY <1>1, <1>3, <1>4, <1>7, <1>11, <1>12, <1>13, CopyChanges

\* A cache reads what is in the buffer.
LEMMA ReadBufferedAgrees ==
    ASSUME IInv, NEW p \in Migrating, NEW b \in Blocks, ReadBuffered(p, b)
    PROVE  (\A q \in Pages : Agrees(q)') /\ StalledWait'
<1>1. UNCHANGED <<setting, location, migrations, events, fresh, stallVars>> /\ UNCHANGED reads
      /\ full \subseteq full' /\ registered \subseteq registered'
    BY DEF ReadBuffered, placeVars, memVars
<1>2. \A q \in Pages : CountedReads(q)' = CountedReads(q)
    BY <1>1 DEF CountedReads
<1> QED
    BY <1>1, <1>2, NoneConcerned

\* A cache reads what is in the destination.
LEMMA ReadWrittenAgrees ==
    ASSUME IInv, NEW p \in Migrating, NEW b \in Blocks, ReadWritten(p, b)
    PROVE  (\A q \in Pages : Agrees(q)') /\ StalledWait'
<1>1. p \in Pages /\ migrations[p].dest \in Mems
    BY CopyBefore DEF Entry
<1> QED
    BY <1>1, PassedOn DEF ReadWritten, PassRead

\* A request for a block that is not read yet.
LEMMA ReadUnreadAgrees ==
    ASSUME IInv, NEW p \in Migrating, NEW b \in Blocks, Served(p, b), CalmRollback, ReadUnread(p, b)
    PROVE  (\A q \in Pages : Agrees(q)') /\ StalledWait'
<1> DEFINE old == migrations[p]
           g == [old EXCEPT !.state[b] = "READING", !.leftToRead = Dec(@)]
           r == Read(p, b, location[p], TRUE, TRUE)
<1>1. /\ p \in Pages /\ old \in Entry /\ location[p] \in Mems
      /\ Body(old, CountedReads(p), fresh[p], location[p])
      /\ ReadCursor(old) /\ ReadLinked(old, ReadChain(p))
      /\ WriteCursor(old) /\ WriteLinked(old, WriteChain(p))
      /\ CopyLinked(old, events[<<"COPY", p>>])
    BY CopyBefore, TypesGive DEF IInv
<1>2. old.state[b] = "NOT_READ" /\ ~old.rolledBack
    BY DEF ReadUnread, Served
<1>3. CASE Refuse(location[p]) /\ UNCHANGED migrations
    BY <1>1, <1>3, PassedOn
<1>4. CASE /\ Accepts(location[p]) /\ Take(location[p])
           /\ migrations' = Put(p, ReadOn(g))
           /\ AddEvents(ReadOnEvent(p, g))
           /\ reads' = reads \cup {r}
           /\ UNCHANGED <<notifications, fresh, placeVars, stallVars, stalledCallers, registered>>
    BY <1>1, <1>2, <1>4, ReadStarts DEF BeginRead
<1> QED
    BY <1>3, <1>4 DEF ReadUnread

\* A cache writes a block that is not read yet.
LEMMA WriteUnreadAgrees ==
    ASSUME IInv, NEW p \in Migrating, NEW b \in Blocks, Served(p, b), CalmRollback, WriteUnread(p, b)
    PROVE  (\A q \in Pages : Agrees(q)') /\ StalledWait'
<1> DEFINE old == migrations[p]
           g == [old EXCEPT !.state[b] = "BUFFERED", !.dirty[b] = TRUE, !.leftToRead = Dec(@),
                            !.unread = @ \cup {b}]
<1>1. /\ p \in Pages /\ old \in Entry
      /\ Body(old, CountedReads(p), fresh[p], location[p])
      /\ ReadCursor(old) /\ ReadLinked(old, ReadChain(p))
      /\ WriteCursor(old) /\ WriteLinked(old, WriteChain(p))
      /\ CopyLinked(old, events[<<"COPY", p>>])
    BY CopyBefore
<1>2. /\ old.state[b] = "NOT_READ" /\ ~old.rolledBack
      /\ migrations' = Put(p, WriteOn(ReadOn(g), b))
      /\ AddEvents(ReadOnEvent(p, g) \cup WriteOnEvent(p, g))
      /\ fresh' = [fresh EXCEPT ![p][b] = {"buffer"}]
      /\ UNCHANGED <<reads, notifications, placeVars, stallVars, memVars>>
    BY DEF WriteUnread, Served
<1> QED
    BY <1>1, <1>2, WriteStarts DEF BufferUnread

\* A block is written while it is read.
LEMMA WriteOvertakesAgrees ==
    ASSUME IInv, NEW p \in Migrating, NEW b \in Blocks, WriteOvertakes(p, b)
    PROVE  (\A q \in Pages : Agrees(q)') /\ StalledWait'
<1> DEFINE old == migrations[p]
           g == [old EXCEPT !.state[b] = "BUFFERED", !.dirty[b] = TRUE,
                            !.joined = @ \cup (old.callers \cap {b})]
           f == WriteOn(g, b)
<1>1. /\ TypeOK /\ TableTyped /\ p \in Pages /\ old \in Entry
      /\ Body(old, CountedReads(p), fresh[p], location[p])
      /\ ReadCursor(old) /\ ReadLinked(old, ReadChain(p))
      /\ WriteCursor(old) /\ WriteLinked(old, WriteChain(p))
      /\ CopyLinked(old, events[<<"COPY", p>>])
    BY CopyBefore, TypesGive DEF IInv
<1>2. /\ old.state[b] = "READING"
      /\ migrations' = Put(p, f)
      /\ AddEvents(WriteOnEvent(p, g))
      /\ fresh' = [fresh EXCEPT ![p][b] = {"buffer"}]
      /\ UNCHANGED <<reads, notifications, placeVars, stallVars, memVars>>
    BY DEF WriteOvertakes
<1>3. /\ g \in Entry /\ Same(old, g) /\ g.nextRead = old.nextRead /\ g.nextWrite = old.nextWrite
      /\ g.state = [old.state EXCEPT ![b] = "BUFFERED"] /\ g.dirty = [old.dirty EXCEPT ![b] = TRUE]
      /\ g.unread = old.unread
      /\ g.leftToRead = old.leftToRead /\ g.leftToCompleteRead = old.leftToCompleteRead
      /\ g.leftToWrite = old.leftToWrite
    BY <1>1 DEF Entry, Same
<1> HIDE DEF g, old
<1>4. f \in Entry /\ Alike(g, f) /\ f.nextRead = g.nextRead
    BY <1>3, StartingKeeps
<1>5. /\ fresh' \in [Pages -> [Blocks -> SUBSET {"dram", "pcm", "buffer"}]]
      /\ fresh'[p] = [fresh[p] EXCEPT ![b] = {"buffer"}]
      /\ \A q \in Pages \ {p} : fresh'[q] = fresh[q]
    BY <1>1, <1>2, WrittenIs
<1>6. Rehoused(fresh[p], fresh'[p], b, {"buffer"})
    BY <1>1, <1>5 DEF TypeOK, Rehoused
<1>7. /\ Body(g, CountedReads(p), fresh'[p], location[p])
      /\ ~old.copied /\ old.leftToWrite > 0
      /\ InState(g, "NOT_READ") = InState(old, "NOT_READ")
      /\ InState(g, "BUFFERED") = InState(old, "BUFFERED") \cup {b}
    BY <1>1, <1>2, <1>3, <1>6, BodyOvertaken
<1>8. Body(f, CountedReads(p), fresh'[p], location[p])
    BY <1>3, <1>4, <1>7, BodySame DEF Alike
<1>9. UNCHANGED stallVars /\ (g.nextWrite = -1) \in BOOLEAN
    BY <1>2
<1>10. /\ events'[<<"COPY", p>>] = events[<<"COPY", p>>]
       /\ \A k \in Kinds, q \in Pages \ {p} : events'[<<k, q>>] = events[<<k, q>>]
       /\ ReadChain(p)' = ReadChain(p) + IF FALSE THEN 1 ELSE 0
       /\ WriteChain(p)' = WriteChain(p) + IF g.nextWrite = -1 THEN 1 ELSE 0
    <2>1. \A k \in Kinds, q \in Pages : <<k, q>> \in WriteOnEvent(p, g) <=>
              q = p /\ ((k = "READ" /\ FALSE) \/ (k = "WRITE" /\ g.nextWrite = -1))
        BY StartedEvents
    <2> QED
        BY <1>1, <1>2, <1>9, <2>1, AddedFor
<1>11. ReadCursor(f) /\ ReadLinked(f, ReadChain(p)')
    <2>1. ReadChain(p)' = ReadChain(p)
        BY <1>1, <1>10 DEF ReadLinked
    <2>2. ReadCursor(g) /\ ReadLinked(g, ReadChain(p)')
        BY <1>1, <1>3, <1>7, <2>1, ReadLinksKept
    <2> QED
        BY <1>3, <1>4, <2>2, AlikeHeldUp, ReadLinksKept DEF Alike
<1>12. WriteCursor(f) /\ WriteLinked(f, WriteChain(p)')
    BY <1>1, <1>3, <1>7, <1>10, WriteOnLinks
<1>13. CopyLinked(f, events'[<<"COPY", p>>])
    <2>1. ~IsComplete(old)
        BY <1>7 DEF IsComplete
    <2> QED
        BY <1>1, <1>10, <2>1 DEF CopyLinked
<1>14. /\ p \in Migrating' /\ migrations'[p] = f
       /\ \A q \in Pages \ {p} : /\ q \in Migrating' <=> q \in Migrating
                                 /\ q \in Migrating => migrations'[q] = migrations[q]
    BY <1>1, <1>2, <1>4, PutIs
<1>15. \A q \in Pages : CountedReads(q)' = CountedReads(q)
    BY <1>2 DEF CountedReads
<1>16. \A m \in full : HeldUpBy(old, m) => HeldUpBy(f, m)
    <2>1. \A m : HeldUpBy(old, m) => HeldUpBy(g, m)
        BY <1>3 DEF HeldUpBy, Same
    <2> QED
        BY <1>4, <2>1, AlikeHeldUp
<1>17. /\ UNCHANGED <<setting, location>> /\ full \subseteq full' /\ registered \subseteq registered'
    BY <1>2 DEF placeVars, memVars
<1> HIDE DEF f
<1>18. OthersKept(p) /\ StaysHeld(p, f)
    BY <1>5, <1>10, <1>14, <1>15, <1>16 DEF OthersKept, StaysHeld, old
<1>19. Body(f, CountedReads(p)', fresh'[p], location[p])
    BY <1>1, <1>8, <1>15
<1> QED
    BY <1>1, <1>4, <1>9, <1>10, <1>11, <1>12, <1>13, <1>14, <1>17, <1>18, <1>19, CopyChanges

\* A cache writes a block that is buffered or written: it is dirty, and m has it.
LEMMA Dirtied ==
    ASSUME IInv, NEW p \in Migrating, NEW b \in Blocks, NEW m \in Mems \cup {"buffer"},
           \/ migrations[p].state[b] = "BUFFERED" /\ m = "buffer"
           \/ migrations[p].state[b] = "WRITTEN" /\ m = migrations[p].dest,
           migrations' = [migrations EXCEPT ![p].dirty[b] = TRUE],
           fresh' = [fresh EXCEPT ![p][b] = {m}],
           UNCHANGED <<events, reads, placeVars, stallVars>>,
           full \subseteq full', registered \subseteq registered'
    PROVE  (\A q \in Pages : Agrees(q)') /\ StalledWait'
<1> DEFINE old == migrations[p]
           f == [old EXCEPT !.dirty[b] = TRUE]
<1>1. /\ TypeOK /\ TableTyped /\ p \in Pages /\ old \in Entry
      /\ Body(old, CountedReads(p), fresh[p], location[p])
      /\ ReadCursor(old) /\ ReadLinked(old, ReadChain(p))
      /\ WriteCursor(old) /\ WriteLinked(old, WriteChain(p))
      /\ CopyLinked(old, events[<<"COPY", p>>])
    BY CopyBefore, TypesGive DEF IInv
<1>2. migrations' = [migrations EXCEPT ![p] = f]
    OBVIOUS
<1>3. /\ f \in Entry /\ Same(old, f) /\ f.nextRead = old.nextRead /\ f.nextWrite = old.nextWrite
      /\ f.state = old.state /\ f.dirty = [old.dirty EXCEPT ![b] = TRUE]
      /\ f.unread = old.unread /\ f.leftToRead = old.leftToRead
      /\ f.leftToCompleteRead = old.leftToCompleteRead /\ f.leftToWrite = old.leftToWrite
    BY <1>1 DEF Entry, Same
<1> HIDE DEF f
<1>4. /\ Migrating' = Migrating /\ migrations'[p] = f
      /\ \A q \in Migrating \ {p} : migrations'[q] = migrations[q]
    BY <1>1, <1>2, <1>3, ChangeIs
<1>5. (\A q \in Pages \ {p} : fresh'[q] = fresh[q]) /\ Rehoused(fresh[p], fresh'[p], b, {m})
    <2>1. /\ fresh'[p] = [fresh[p] EXCEPT ![b] = {m}]
          /\ \A q \in Pages \ {p} : fresh'[q] = fresh[q]
        BY <1>1, WrittenIs
    <2> QED
        BY <1>1, <2>1 DEF TypeOK, Rehoused
<1>6. \A q \in Pages : CountedReads(q)' = CountedReads(q)
    BY DEF CountedReads
<1>7. /\ UNCHANGED <<setting, location>> /\ UNCHANGED stallVars
      /\ \A k \in Kinds, q \in Pages : events'[<<k, q>>] = events[<<k, q>>]
      /\ events'[<<"COPY", p>>] = events[<<"COPY", p>>]
    BY DEF placeVars
<1>8. ReadChain(p)' = ReadChain(p) /\ WriteChain(p)' = WriteChain(p)
    BY <1>7, ChainsNext DEF ReadChain, WriteChain
<1> HIDE DEF old
<1>9. migrations[p] = old
    BY DEF old
<1>10. Body(f, CountedReads(p), fresh'[p], location[p]) /\ \A s : InState(f, s) = InState(old, s)
    BY <1>1, <1>3, <1>5, <1>9, BodyDirtied
<1>11. ReadCursor(f) /\ ReadLinked(f, ReadChain(p)') /\ WriteCursor(f) /\ WriteLinked(f, WriteChain(p)')
    BY <1>1, <1>3, <1>8, <1>10, ReadLinksKept, WriteLinksKept
<1>12. CopyLinked(f, events'[<<"COPY", p>>])
    BY <1>1, <1>3, <1>7 DEF CopyLinked, Same, IsComplete
<1>13. OthersKept(p)
    BY <1>4, <1>5, <1>6, <1>7 DEF OthersKept
<1>14. StaysHeld(p, f)
    BY <1>3, <1>9 DEF StaysHeld, HeldUpBy, Same
<1>15. Body(f, CountedReads(p)', fresh'[p], location[p]) /\ p \in Migrating'
    BY <1>1, <1>4, <1>6, <1>10
<1> QED
    BY <1>1, <1>3, <1>4, <1>7, <1>11, <1>12, <1>13, <1>14, <1>15, CopyChanges

\* A cache writes to the buffer.
LEMMA WriteBufferedAgrees ==
    ASSUME IInv, NEW p \in Migrating, NEW b \in Blocks, WriteBuffered(p, b)
    PROVE  (\A q \in Pages : Agrees(q)') /\ StalledWait'
BY Dirtied DEF WriteBuffered, memVars

\* A cache writes to the destination.
LEMMA WriteWrittenAgrees ==
    ASSUME IInv, NEW p \in Migrating, NEW b \in Blocks, WriteWritten(p, b)
    PROVE  (\A q \in Pages : Agrees(q)') /\ StalledWait'
<1> DEFINE m == migrations[p].dest
<1>1. p \in Pages /\ m \in Mems /\ TypeOK
    BY CopyBefore DEF Entry, IInv
<1>2. CASE Refuse(m) /\ UNCHANGED migrations
    BY <1>1, <1>2, PassedOn
<1>3. CASE /\ Take(m)
           /\ migrations[p].state[b] = "WRITTEN"
           /\ migrations' = [migrations EXCEPT ![p].dirty[b] = TRUE]
           /\ fresh' = [fresh EXCEPT ![p][b] = {m}]
           /\ UNCHANGED <<events, reads, notifications, placeVars, stallVars, stalledCallers, registered>>
    <2>1. full \subseteq full' /\ registered \subseteq registered'
        BY <1>1, <1>3, MemTypedKept
    <2> QED
        BY <1>1, <1>3, <2>1, Dirtied
<1> QED
    BY <1>2, <1>3 DEF WriteWritten

-----------------------------------------------------------------------------
(* Requests for a page that is not being copied, and the start of a copy *)

\* A cache reads a block.
LEMMA ReadResidentAgrees ==
    ASSUME IInv, NEW p \in Pages, NEW b \in Blocks, ReadResident(p, b)
    PROVE  (\A q \in Pages : Agrees(q)') /\ StalledWait'
<1>1. location[p] \in Mems
    BY TypesGive DEF IInv
<1> QED
    BY <1>1, PassedOn DEF ReadResident, PassRead

\* A cache writes a block.
LEMMA WriteResidentAgrees ==
    ASSUME IInv, NEW p \in Pages, p \notin Migrating, NEW b \in Blocks, WriteResident(p, b)
    PROVE  (\A q \in Pages : Agrees(q)') /\ StalledWait'
<1> DEFINE m == location[p]
<1>1. m \in Mems /\ TypeOK
    BY TypesGive DEF IInv
<1>2. CASE Refuse(m) /\ UNCHANGED migrations
    BY <1>1, <1>2, PassedOn
<1>3. CASE /\ Take(m)
           /\ fresh' = [fresh EXCEPT ![p][b] = {m}]
           /\ UNCHANGED <<events, reads, setting, location, stallVars, stalledCallers, registered>>
           /\ UNCHANGED migrations
    <2>1. full \subseteq full' /\ registered \subseteq registered'
        BY <1>1, <1>3, MemTypedKept
    <2>2. /\ \A q \in Pages \ {p} : fresh'[q] = fresh[q]
          /\ fresh'[p] = [fresh[p] EXCEPT ![b] = {m}]
        BY <1>1, <1>3, WrittenIs
    <2>3. \A q \in Pages : CountedReads(q)' = CountedReads(q)
        BY <1>3 DEF CountedReads
    <2>4. Migrating' = Migrating
        BY <1>3 DEF Migrating
    <2>5. UNCHANGED stallVars /\ UNCHANGED <<setting, stalledOnRead, location, migrations>>
          /\ \A k \in Kinds, q \in Pages : events'[<<k, q>>] = events[<<k, q>>]
        BY <1>3 DEF stallVars
    <2>6. \A q \in Pages \ {p} : Undisturbed(q)
        BY <2>2, <2>3, <2>4, <2>5, UndisturbedBy
    <2>7. Resting(p)
        BY DEF IInv, Agrees
    <2>8. Resting(p)'
        <3>1. ReadChain(p)' = 0 /\ WriteChain(p)' = 0
            BY <1>3, <2>5, <2>7, ChainsNext DEF Resting, ReadChain, WriteChain
        <3>2. events'[<<"COPY", p>>] = 0
            BY <1>3, <2>7 DEF Resting
        <3>3. \A c \in Blocks : location'[p] \in fresh'[p][c]
            BY <1>1, <2>2, <2>5, <2>7 DEF Resting, TypeOK
        <3> QED
            BY <2>3, <2>7, <3>1, <3>2, <3>3 DEF Resting
    <2>9. Agrees(p)'
        BY <2>4, <2>8 DEF Agrees
    <2> QED
        BY <2>1, <2>5, <2>6, <2>9, OnlyOne
<1> QED
    BY <1>2, <1>3 DEF WriteResident

\* A new copy of a page that rests.
LEMMA NewAgrees ==
    ASSUME IInv, NEW p \in Pages, p \notin Migrating, NEW dest \in Mems, dest # location[p],
           location[p] = "dram" => setting.threshold = 0
    PROVE  LET e == NewEntry(location[p], dest) IN
           /\ e \in Entry
           /\ Body(e, CountedReads(p), fresh[p], location[p])
           /\ ReadCursor(e) /\ (location[p] = "pcm" => ReadLinked(e, ReadChain(p)))
           /\ WriteCursor(e) /\ WriteLinked(e, WriteChain(p))
           /\ CopyLinked(e, events[<<"COPY", p>>])
           /\ ReadChain(p) = 0 /\ WriteChain(p) = 0 /\ events[<<"COPY", p>>] = 0
           /\ ~e.rolledBack /\ e.leftToRead = NumBlocks /\ e.leftToWrite = NumBlocks
           /\ InState(e, "NOT_READ") = Blocks /\ InState(e, "BUFFERED") = {}
           /\ \A b \in Blocks : e.state[b] = "NOT_READ"
<1> DEFINE e == NewEntry(location[p], dest)
<1>1. Resting(p) /\ location[p] \in Mems
    BY TypesGive DEF IInv, Agrees
<1>2. e \in Entry
    BY <1>1, NewEntryTyped
<1>3. /\ ~e.rolledBack /\ e.nextRead = 0 /\ e.nextWrite = -1 /\ e.src = location[p] /\ e.leftToWrite = NumBlocks
      /\ \A b \in Blocks : e.state[b] = "NOT_READ"
    BY DEF NewEntry
<1>4. /\ Body(e, {}, fresh[p], location[p]) /\ e.leftToRead = NumBlocks
      /\ InState(e, "NOT_READ") = Blocks /\ InState(e, "BUFFERED") = {}
    <2> DEFINE src == location[p]
               F == fresh[p]
    <2>1. src \in Mems /\ src # dest /\ (src = "dram" => setting.threshold = 0)
          /\ \A b \in Blocks : src \in F[b]
        BY <1>1 DEF Resting
    <2> HIDE DEF src, F
    <2>2. /\ Body(NewEntry(src, dest), {}, F, src)
          /\ NewEntry(src, dest).leftToRead = NumBlocks
          /\ InState(NewEntry(src, dest), "NOT_READ") = Blocks
          /\ InState(NewEntry(src, dest), "BUFFERED") = {}
        BY <2>1, BodyNew
    <2> QED
        BY <2>2 DEF src, F
<1> HIDE DEF e
<1>5. CountedReads(p) = {} /\ ReadChain(p) = 0 /\ WriteChain(p) = 0 /\ events[<<"COPY", p>>] = 0
    BY <1>1 DEF Resting
<1>6. ReadCursor(e) /\ (location[p] = "pcm" => ReadLinked(e, ReadChain(p)))
    <2>1. NumBlocks \in Nat /\ NumBlocks > 1
        BY PageCopyAssumption
    <2>2. e.nextRead \in Blocks /\ \A c \in Blocks : e.nextRead <= c
        BY <1>3, <2>1 DEF Blocks
    <2>3. ReadCursor(e)
        BY <1>3, <1>4, <1>5, <2>2 DEF ReadCursor
    <2>4. setting \in Settings
        BY DEF IInv, TypeOK
    <2>5. setting.threshold \in Nat /\ (OneQueue => setting.threshold < NumBlocks)
        BY <2>4, PageCopyAssumption DEF OneQueue
    <2>6. ASSUME location[p] = "pcm" PROVE ReadLinked(e, ReadChain(p))
        BY <1>3, <1>4, <1>5, <2>1, <2>5, <2>6 DEF ReadLinked
    <2> QED
        BY <2>3, <2>6
<1>7. WriteCursor(e) /\ WriteLinked(e, WriteChain(p))
    BY <1>3, <1>4, <1>5 DEF WriteCursor, WriteLinked
<1>8. CopyLinked(e, events[<<"COPY", p>>])
    BY <1>5 DEF CopyLinked
<1> QED
    BY <1>2, <1>3, <1>4, <1>5, <1>6, <1>7, <1>8 DEF e

\* A read starts a promotion.
LEMMA ReadOnDemandAgrees ==
    ASSUME IInv, NEW p \in Pages, p \notin Migrating, NEW b \in Blocks, ReadOnDemand(p, b)
    PROVE  (\A q \in Pages : Agrees(q)') /\ StalledWait'
<1> DEFINE old == NewEntry("pcm", "dram")
           g == BeginRead(old, b)
           r == Read(p, b, "pcm", TRUE, TRUE)
<1>1. location[p] = "pcm" /\ "dram" \in Mems /\ "pcm" \in Mems /\ TypeOK /\ TableTyped
    BY TypesGive DEF ReadOnDemand, Mems, IInv
<1>2. \/ /\ Refuse("pcm")
         /\ migrations' = Put(p, old)
      \/ /\ Accepts("pcm")
         /\ Take("pcm")
         /\ migrations' = Put(p, ReadOn(g))
         /\ AddEvents(ReadOnEvent(p, g))
         /\ reads' = reads \cup {r}
         /\ UNCHANGED <<notifications, fresh, placeVars, stallVars, stalledCallers, registered>>
    BY DEF ReadOnDemand, BeginRead
<1> HIDE DEF old
<1>3. /\ old \in Entry
      /\ Body(old, CountedReads(p), fresh[p], location[p])
      /\ ReadCursor(old) /\ ReadLinked(old, ReadChain(p))
      /\ WriteCursor(old) /\ WriteLinked(old, WriteChain(p))
      /\ CopyLinked(old, events[<<"COPY", p>>])
      /\ ~old.rolledBack /\ old.state[b] = "NOT_READ"
    BY <1>1, NewAgrees DEF old
<1>4. CASE Refuse("pcm") /\ migrations' = Put(p, old)
    <2>1. UNCHANGED <<setting, location>> /\ UNCHANGED stallVars /\ UNCHANGED events
        BY <1>4 DEF Refuse, placeVars
    <2>2. full \subseteq full' /\ registered \subseteq registered'
        BY <1>1, <1>4, MemTypedKept
    <2>3. /\ p \in Migrating' /\ migrations'[p] = old
          /\ \A q \in Pages \ {p} : /\ q \in Migrating' <=> q \in Migrating
                                    /\ q \in Migrating => migrations'[q] = migrations[q]
        BY <1>1, <1>3, <1>4, PutIs
    <2>4. \A q \in Pages : CountedReads(q)' = CountedReads(q) /\ fresh'[q] = fresh[q]
        BY <1>4 DEF CountedReads, Refuse
    <2>5. OthersKept(p) /\ StaysHeld(p, old)
        BY <2>1, <2>3, <2>4 DEF OthersKept, StaysHeld
    <2>6. ReadChain(p)' = ReadChain(p) /\ WriteChain(p)' = WriteChain(p)
        BY <2>1, ChainsNext DEF ReadChain, WriteChain
    <2>7. Body(old, CountedReads(p)', fresh'[p], location[p]) /\ CopyLinked(old, events'[<<"COPY", p>>])
          /\ ReadLinked(old, ReadChain(p)') /\ WriteLinked(old, WriteChain(p)')
        BY <1>3, <2>1, <2>4, <2>6
    <2> QED
        BY <1>3, <2>1, <2>2, <2>3, <2>5, <2>7, CopyChanges
<1>5. CASE /\ Accepts("pcm")
           /\ Take("pcm")
           /\ migrations' = Put(p, ReadOn(g))
           /\ AddEvents(ReadOnEvent(p, g))
           /\ reads' = reads \cup {r}
           /\ UNCHANGED <<notifications, fresh, placeVars, stallVars, stalledCallers, registered>>
    BY <1>1, <1>3, <1>5, ReadStarts
<1> QED
    BY <1>2, <1>4, <1>5

\* A write starts a promotion.
LEMMA WriteOnDemandAgrees ==
    ASSUME IInv, NEW p \in Pages, p \notin Migrating, NEW b \in Blocks, WriteOnDemand(p, b)
    PROVE  (\A q \in Pages : Agrees(q)') /\ StalledWait'
<1> DEFINE old == NewEntry("pcm", "dram")
           g == BufferUnread(old, b)
<1>1. location[p] = "pcm" /\ "dram" \in Mems /\ "pcm" \in Mems
    BY DEF WriteOnDemand, Mems
<1>2. [old EXCEPT !.state[b] = "BUFFERED", !.dirty[b] = TRUE, !.leftToRead = Dec(@), !.unread = {b}] = g
    BY DEF BufferUnread, NewEntry
<1>3. /\ migrations' = Put(p, WriteOn(ReadOn(g), b))
      /\ AddEvents(ReadOnEvent(p, g) \cup WriteOnEvent(p, g))
      /\ fresh' = [fresh EXCEPT ![p][b] = {"buffer"}]
      /\ UNCHANGED <<reads, notifications, placeVars, stallVars, memVars>>
    BY <1>2 DEF WriteOnDemand
<1> HIDE DEF old
<1>4. /\ old \in Entry
      /\ Body(old, CountedReads(p), fresh[p], location[p])
      /\ ReadCursor(old) /\ ReadLinked(old, ReadChain(p))
      /\ WriteCursor(old) /\ WriteLinked(old, WriteChain(p))
      /\ CopyLinked(old, events[<<"COPY", p>>])
      /\ ~old.rolledBack /\ old.state[b] = "NOT_READ"
    BY <1>1, NewAgrees DEF old
<1> QED
    BY <1>3, <1>4, WriteStarts

\* The manager starts a demotion.
LEMMA CopyPageAgrees ==
    ASSUME IInv, Configured, NEW p \in Pages, CopyPage(p)
    PROVE  (\A q \in Pages : Agrees(q)') /\ StalledWait'
<1> DEFINE new == NewEntry("dram", "pcm")
<1>1. /\ location[p] = "dram" /\ "dram" \in Mems /\ "pcm" \in Mems /\ TypeOK /\ TableTyped
      /\ p \notin Migrating /\ setting.threshold = 0 /\ ~Elide
    BY TypesGive, ThresholdIs DEF CopyPage, Mems, IInv, Configured
<1>2. Cardinality({}) = 0 /\ NumBlocks \in Nat /\ First(Blocks) = 0
    <2>1. NumBlocks \in Nat /\ NumBlocks > 1
        BY PageCopyAssumption
    <2>2. 0 \in Blocks
        BY <2>1 DEF Blocks
    <2>3. First(Blocks) \in Blocks /\ First(Blocks) <= 0
        BY <2>2, FirstIs
    <2> QED
        BY <2>1, <2>3, FS_EmptySet DEF Blocks
<1>3. /\ migrations' = Put(p, new)
      /\ AddEvents({<<"READ", p>>})
      /\ UNCHANGED <<setting, location, reads, notifications, fresh, accesses, stallVars, memVars>>
    <2> DEFINE elided == IF Elide /\ p \in DOMAIN dirties THEN dirties[p] ELSE {}
               f == [new EXCEPT
                      !.state = [c \in Blocks |-> IF c \in elided THEN "WRITTEN" ELSE "NOT_READ"],
                      !.leftToWrite = @ - Cardinality(elided),
                      !.nextRead = IF elided = Blocks THEN -1 ELSE First(Blocks \ elided)]
    <2>1. /\ migrations' = Put(p, f)
          /\ AddEvents({<<"READ", p>>})
          /\ UNCHANGED <<setting, location, reads, notifications, fresh, accesses, stallVars, memVars>>
        BY DEF CopyPage
    <2>2. elided = {} /\ {} # Blocks /\ Blocks \ {} = Blocks
        <3>1. 0 \in Blocks
            BY PageCopyAssumption DEF Blocks
        <3> QED
            BY <1>1, <3>1
    <2> HIDE DEF elided
    <2> DEFINE none == [c \in Blocks |-> "NOT_READ"]
    <2>3. f = [new EXCEPT !.state = none, !.leftToWrite = @ - 0, !.nextRead = 0]
        BY <1>2, <2>2
    <2> HIDE DEF f
    <2>4. new.state = none /\ new.leftToWrite = NumBlocks /\ new.nextRead = 0
        BY DEF NewEntry
    <2>5. new \in Entry
        BY <1>1, NewEntryTyped
    <2> HIDE DEF new, none
    <2>6. new.leftToWrite - 0 = new.leftToWrite
        BY <1>2, <2>4
    <2>7. f = new
        BY <2>3, <2>4, <2>5, <2>6 DEF Entry
    <2> QED
        BY <2>1, <2>7 DEF f
<1> HIDE DEF new
<1>4. /\ new \in Entry
      /\ Body(new, CountedReads(p), fresh[p], location[p])
      /\ ReadCursor(new)
      /\ WriteCursor(new) /\ WriteLinked(new, WriteChain(p))
      /\ CopyLinked(new, events[<<"COPY", p>>])
      /\ ReadChain(p) = 0 /\ ~new.rolledBack /\ new.src = "dram"
    <2>1. new.src = "dram"
        BY DEF new, NewEntry
    <2> QED
        BY <1>1, <2>1, NewAgrees DEF new
<1>5. UNCHANGED stallVars /\ UNCHANGED <<setting, location>>
      /\ full \subseteq full' /\ registered \subseteq registered'
    BY <1>3 DEF memVars
<1>6. /\ events'[<<"COPY", p>>] = events[<<"COPY", p>>]
      /\ \A k \in Kinds, q \in Pages \ {p} : events'[<<k, q>>] = events[<<k, q>>]
      /\ ReadChain(p)' = ReadChain(p) + IF TRUE THEN 1 ELSE 0
      /\ WriteChain(p)' = WriteChain(p) + IF FALSE THEN 1 ELSE 0
    <2>1. \A k \in Kinds, q \in Pages : <<k, q>> \in {<<"READ", p>>} <=>
              q = p /\ ((k = "READ" /\ TRUE) \/ (k = "WRITE" /\ FALSE))
        OBVIOUS
    <2> QED
        BY <1>1, <1>3, <1>5, <2>1, AddedFor
<1>7. ReadLinked(new, ReadChain(p)') /\ WriteLinked(new, WriteChain(p)') /\ CopyLinked(new, events'[<<"COPY", p>>])
    BY <1>4, <1>6 DEF ReadLinked, WriteLinked
<1>8. /\ p \in Migrating' /\ migrations'[p] = new
      /\ \A q \in Pages \ {p} : /\ q \in Migrating' <=> q \in Migrating
                                /\ q \in Migrating => migrations'[q] = migrations[q]
    BY <1>1, <1>3, <1>4, PutIs
<1>9. \A q \in Pages : CountedReads(q)' = CountedReads(q) /\ fresh'[q] = fresh[q]
    BY <1>3 DEF CountedReads
<1>10. OthersKept(p) /\ StaysHeld(p, new)
    BY <1>1, <1>6, <1>8, <1>9 DEF OthersKept, StaysHeld
<1>11. Body(new, CountedReads(p)', fresh'[p], location[p])
    BY <1>4, <1>9
<1> QED
    BY <1>4, <1>5, <1>7, <1>8, <1>10, <1>11, CopyChanges

-----------------------------------------------------------------------------
(* The end of a copy, and its rollback *)

\* An event of page p is taken, and put back if more.
LEMMA TakenFor ==
    ASSUME TypeOK, NEW p \in Pages, NEW k \in Kinds, Pending(k, p), NEW more \in BOOLEAN,
           TakeEvent(<<k, p>>, IF more THEN {<<k, p>>} ELSE {})
    PROVE  /\ events[<<k, p>>] \in Nat \ {0}
           /\ events'[<<k, p>>] = events[<<k, p>>] - IF more THEN 0 ELSE 1
           /\ \A j \in Kinds \ {k} : events'[<<j, p>>] = events[<<j, p>>]
           /\ \A j \in Kinds, q \in Pages \ {p} : events'[<<j, q>>] = events[<<j, q>>]
<1> DEFINE new == IF more THEN {<<k, p>>} ELSE {}
<1>1. \A j \in Kinds, q \in Pages : <<j, q>> \in new <=> j = k /\ q = p /\ more
    OBVIOUS
<1>2. TakeEvent(<<k, p>>, new)
    OBVIOUS
<1> HIDE DEF new
<1>3. /\ events[<<k, p>>] \in Nat \ {0}
      /\ \A j \in Kinds, q \in Pages :
             events'[<<j, q>>] = events[<<j, q>>] - (IF j = k /\ q = p THEN 1 ELSE 0)
                                     + IF <<j, q>> \in new THEN 1 ELSE 0
    BY <1>2, TakeEventIs
<1>4. \A j \in Kinds, q \in Pages : events[<<j, q>>] \in Nat
    BY DEF TypeOK
<1>5. events'[<<k, p>>] = events[<<k, p>>] - IF more THEN 0 ELSE 1
    <2>1. events'[<<k, p>>] = events[<<k, p>>] - 1 + IF <<k, p>> \in new THEN 1 ELSE 0
        BY <1>3
    <2>2. <<k, p>> \in new <=> more
        BY <1>1
    <2> QED
        BY <1>4, <2>1, <2>2
<1>6. ASSUME NEW j \in Kinds, NEW q \in Pages, j # k \/ q # p
      PROVE  events'[<<j, q>>] = events[<<j, q>>]
    <2>1. events'[<<j, q>>] = events[<<j, q>>] - 0 + IF <<j, q>> \in new THEN 1 ELSE 0
        BY <1>3, <1>6
    <2>2. <<j, q>> \notin new
        BY <1>1, <1>6
    <2> QED
        BY <1>4, <2>1, <2>2
<1> QED
    BY <1>3, <1>5, <1>6

\* The reads among rest that count for the copy of q.
Counted(rest, q) == {r \in rest : r.page = q /\ r.partOfMigration}

\* An entry is put back, or the copy is complete, and nothing else is concerned.
LEMMA PutBackAgrees ==
    ASSUME IInv, UNCHANGED <<setting, location>>, UNCHANGED stallVars,
           full \subseteq full', registered \subseteq registered',
           NEW p \in Migrating, NEW e \in Entry, NEW rest \in SUBSET Reads,
           PutOrComplete(p, e, rest) \/ (IsComplete(e) /\ Complete(p, e, rest)),
           \A q \in Pages \ {p} : Counted(rest, q) = CountedReads(q) /\ fresh'[q] = fresh[q],
           \A k \in Kinds, q \in Pages \ {p} : events'[<<k, q>>] = events[<<k, q>>],
           Body(e, Counted(rest, p), fresh'[p], location[p]),
           ReadCursor(e), ReadLinked(e, ReadChain(p)'), WriteCursor(e), WriteLinked(e, WriteChain(p)'),
           CopyLinked(e, events'[<<"COPY", p>>]), IsComplete(e) => events'[<<"COPY", p>>] = 0,
           StaysHeld(p, e)
    PROVE  (\A q \in Pages : Agrees(q)') /\ StalledWait'
<1>1. TypeOK /\ p \in Pages /\ location'[p] = location[p] /\ UNCHANGED setting /\ UNCHANGED stalledOnRead
      /\ full \subseteq Mems
    BY CopyBefore, TypesGive, PageCopyAssumption DEF IInv, stallVars, MemTyped
<1>2. /\ Agrees(p)' /\ reads' = rest
      /\ \A q \in Pages \ {p} : /\ q \in Migrating' <=> q \in Migrating
                                /\ q \in Migrating => migrations'[q] = migrations[q]
      /\ p \in Migrating' \/ IsComplete(e)
      /\ p \in Migrating' => \A m : HeldUpBy(e, m) => HeldUpBy(migrations'[p], m)
    <2>1. Body(e, {r \in rest : r.page = p /\ r.partOfMigration}, fresh'[p], location'[p])
        BY <1>1 DEF Counted
    <2> QED
        BY <1>1, <2>1, PutBack
<1>3. ASSUME NEW q \in Pages \ {p} PROVE Undisturbed(q)
    <2>1. CountedReads(q)' = CountedReads(q)
        BY <1>2 DEF Counted, CountedReads
    <2>2. \A k \in Kinds : events'[<<k, q>>] = events[<<k, q>>]
        BY <1>3
    <2>3. fresh'[q] = fresh[q] /\ location'[q] = location[q]
        BY <1>3
    <2> QED
        BY <1>2, <2>1, <2>2, <2>3, UndisturbedBy
<1>4. ASSUME NEW m \in full, Contains(stalledOnRead, p), HeldUpBy(migrations[p], m)
      PROVE  p \in Migrating' /\ HeldUpBy(migrations'[p], m)
    <2>1. HeldUpBy(e, m)
        BY <1>4 DEF StaysHeld
    <2>2. ~IsComplete(e)
        BY <1>1, <2>1, CompleteIsFree
    <2> QED
        BY <1>2, <2>1, <2>2
<1> QED
    BY <1>1, <1>2, <1>3, <1>4, OnlyOne

\* What is rolled back without having to be copied is complete.
LEMMA CopyEventAgrees ==
    ASSUME IInv, NEW p \in Pages, CopyEvent(p)
    PROVE  (\A q \in Pages : Agrees(q)') /\ StalledWait'
<1> DEFINE old == migrations[p]
<1>1. /\ p \in Migrating /\ Pending("COPY", p) /\ TakeEvent(<<"COPY", p>>, {}) /\ Complete(p, old, reads)
      /\ UNCHANGED <<notifications, fresh, accesses, placeVars, stallVars, memVars>>
    BY DEF CopyEvent
<1>2. /\ TypeOK /\ old \in Entry
      /\ Body(old, CountedReads(p), fresh[p], location[p])
      /\ ReadCursor(old) /\ ReadLinked(old, ReadChain(p))
      /\ WriteCursor(old) /\ WriteLinked(old, WriteChain(p))
      /\ CopyLinked(old, events[<<"COPY", p>>])
    BY <1>1, CopyBefore DEF IInv
<1> HIDE DEF old
<1>3. "COPY" \in Kinds /\ "READ" \in Kinds \ {"COPY"} /\ "WRITE" \in Kinds \ {"COPY"}
    BY DEF Kinds
<1>4. /\ events[<<"COPY", p>>] \in Nat \ {0}
      /\ events'[<<"COPY", p>>] = events[<<"COPY", p>>] - IF FALSE THEN 0 ELSE 1
      /\ \A j \in Kinds \ {"COPY"} : events'[<<j, p>>] = events[<<j, p>>]
      /\ \A j \in Kinds, q \in Pages \ {p} : events'[<<j, q>>] = events[<<j, q>>]
    <2>1. TakeEvent(<<"COPY", p>>, IF FALSE THEN {<<"COPY", p>>} ELSE {})
        BY <1>1
    <2> QED
        BY <1>1, <1>2, <1>3, <2>1, TakenFor
<1>5. old.rolledBack /\ IsComplete(old) /\ events'[<<"COPY", p>>] = 0
    BY <1>2, <1>4 DEF CopyLinked
<1>6. UNCHANGED stallVars /\ UNCHANGED <<setting, location>> /\ UNCHANGED fresh
      /\ full \subseteq full' /\ registered \subseteq registered'
    BY <1>1 DEF placeVars, memVars
<1>7. ReadChain(p)' = ReadChain(p) /\ WriteChain(p)' = WriteChain(p)
    BY <1>3, <1>4, <1>6, ChainsNext DEF ReadChain, WriteChain
<1>8. \A q : Counted(reads, q) = CountedReads(q)
    BY DEF Counted, CountedReads
<1>9. reads \in SUBSET Reads
    BY <1>2, TypesGive
<1>10. CopyLinked(old, events'[<<"COPY", p>>])
    BY <1>5 DEF CopyLinked
<1>11. StaysHeld(p, old)
    BY DEF StaysHeld, old
<1>12. Body(old, Counted(reads, p), fresh'[p], location[p])
    BY <1>2, <1>6, <1>8
<1>13. ReadLinked(old, ReadChain(p)') /\ WriteLinked(old, WriteChain(p)')
    BY <1>2, <1>7
<1>14. /\ \A q \in Pages \ {p} : Counted(reads, q) = CountedReads(q) /\ fresh'[q] = fresh[q]
       /\ IsComplete(old) /\ Complete(p, old, reads)
    BY <1>1, <1>5, <1>6, <1>8
<1> QED
    BY <1>1, <1>2, <1>4, <1>5, <1>6, <1>9, <1>10, <1>11, <1>12, <1>13, <1>14, PutBackAgrees

\* A copy that is complete has nothing in the lists of those that stalled while reading.
LEMMA CompleteNotListed ==
    ASSUME IInv, NEW p \in Migrating, IsComplete(migrations[p])
    PROVE  ~Contains(stalledOnRead, p) /\ Occurrences(stalledOnRead, p) = 0
<1>1. /\ TypeOK /\ migrations[p] \in Entry /\ stalledOnRead \in Seq(Pages) /\ full \subseteq Mems
      /\ Body(migrations[p], CountedReads(p), fresh[p], location[p])
    BY CopyBefore, TypesGive, PageCopyAssumption DEF IInv, MemTyped
<1>2. SUFFICES ASSUME Contains(stalledOnRead, p) PROVE FALSE
    BY <1>1, OccurrencesNone
<1>3. PICK i \in DOMAIN stalledOnRead : stalledOnRead[i] = p
    BY <1>1, <1>2, OccurrencesNone
<1>4. stalledOnRead # <<>>
    BY <1>3
<1>5. PICK m \in full : HeldUpBy(migrations[p], m)
    BY <1>3, <1>4 DEF IInv, StalledWait
<1> QED
    BY <1>1, <1>5, CompleteIsFree

\* The page is mapped to where it was copied.
LEMMA FinishAgrees ==
    ASSUME IInv, NEW p \in Pages, Finish(p)
    PROVE  (\A q \in Pages : Agrees(q)') /\ StalledWait'
<1> DEFINE old == migrations[p]
<1>1. /\ p \in Migrating /\ old.copied /\ ~Pending("READ", p)
      /\ location' = [location EXCEPT ![p] = old.dest]
      /\ migrations' = Without(p)
      /\ UNCHANGED <<setting, events, reads, notifications, fresh, accesses, stallVars, memVars>>
    BY DEF Finish
<1>2. /\ TypeOK /\ TableTyped /\ old \in Entry /\ location \in [Pages -> Mems]
      /\ Body(old, CountedReads(p), fresh[p], location[p])
      /\ WriteLinked(old, WriteChain(p))
      /\ CopyLinked(old, events[<<"COPY", p>>])
    BY <1>1, CopyBefore, TypesGive DEF IInv
<1>3. Sides(old, location[p]) /\ Counts(old, CountedReads(p)) /\ Held(old, fresh[p])
    BY <1>2 DEF Body
<1>4. IsComplete(old) /\ ~old.rolledBack
    BY <1>1, <1>3 DEF Sides
<1>5. ~Contains(stalledOnRead, p) /\ Occurrences(stalledOnRead, p) = 0
    BY <1>1, <1>4, CompleteNotListed
<1> HIDE DEF old
<1>6. CountedReads(p) = {} /\ \A b \in Blocks : old.state[b] = "WRITTEN"
    BY <1>2, <1>3, <1>4, CountsSay DEF IsComplete, InState
<1>7. ReadChain(p) = 0
    <2>1. events[<<"READ", p>>] = 0
        <3>1. events[<<"READ", p>>] \in Nat
            BY <1>2, ChainsAre
        <3> QED
            BY <1>1, <3>1 DEF Pending
    <2> QED
        BY <1>5, <2>1 DEF ReadChain
<1>8. WriteChain(p) = 0 /\ events[<<"COPY", p>>] = 0
    <2>1. InState(old, "BUFFERED") = {}
        BY <1>6 DEF InState
    <2> QED
        BY <1>2, <1>4, <2>1 DEF WriteLinked, CopyLinked
<1>9. \A b \in Blocks : old.dest \in fresh[p][b]
    BY <1>3, <1>6 DEF Held
<1>10. /\ Migrating' = Migrating \ {p}
       /\ \A q \in Migrating \ {p} : migrations'[q] = migrations[q]
    BY <1>1, <1>2, WithoutIs
<1>11. \A q \in Pages : CountedReads(q)' = CountedReads(q)
    BY <1>1 DEF CountedReads
<1>12. UNCHANGED stallVars /\ UNCHANGED <<setting, stalledOnRead>> /\ UNCHANGED events /\ UNCHANGED fresh
       /\ full \subseteq full' /\ registered \subseteq registered'
    BY <1>1 DEF memVars, stallVars
<1>13. \A q \in Pages : ReadChain(q)' = ReadChain(q) /\ WriteChain(q)' = WriteChain(q)
    BY <1>12, ChainsNext DEF ReadChain, WriteChain
<1>14. Agrees(p)'
    <2>1. Resting(p)'
        BY <1>1, <1>2, <1>6, <1>7, <1>8, <1>9, <1>11, <1>12, <1>13 DEF Resting
    <2> QED
        BY <1>10, <2>1 DEF Agrees
<1>15. ASSUME NEW q \in Pages \ {p} PROVE Undisturbed(q)
    <2>1. location'[q] = location[q]
        BY <1>1, <1>2
    <2> QED
        BY <1>10, <1>11, <1>12, <2>1, UndisturbedBy
<1> QED
    BY <1>5, <1>12, <1>14, <1>15, OnlyOne

\* How many blocks are not in U.
LEMMA OtherBlocks ==
    ASSUME NEW U \in SUBSET Blocks
    PROVE  Cardinality(Blocks \ U) = NumBlocks - Cardinality(U)
<1>1. IsFiniteSet(Blocks) /\ Cardinality(Blocks) = NumBlocks
    BY PageCopyAssumption, FS_Interval DEF Blocks
<1>2. Cardinality(Blocks \ U) = Cardinality(Blocks) - Cardinality(Blocks \cap U)
    BY <1>1, FS_Difference
<1>3. Blocks \cap U = U
    OBVIOUS
<1> QED
    BY <1>1, <1>2, <1>3

\* What a rollback makes of the entry e: the blocks S are to be read again, and T are buffered.
RolledBack(e, f, S, T) ==
    /\ S = {b \in InState(e, "WRITTEN") : e.dirty[b]} /\ T = {b \in InState(e, "BUFFERED") : e.dirty[b]}
    /\ f.src = "dram" /\ f.dest = "pcm" /\ f.rolledBack /\ f.copied = e.copied /\ f.unread = {}
    /\ f.state = [b \in Blocks |-> IF b \in S THEN "NOT_READ" ELSE IF b \in T THEN "BUFFERED" ELSE "WRITTEN"]
    /\ f.leftToRead = Cardinality(S) /\ f.leftToCompleteRead = Cardinality(S)
    /\ f.leftToWrite = Cardinality(S \cup T)

\* The blocks of a copy that is rolled back.
LEMMA BodyRolledBack ==
    ASSUME NEW e \in Entry, NEW f \in Entry, NEW F, NEW at, NEW S, NEW T,
           Body(e, {}, F, at), e.dest = "dram", ~e.copied, RolledBack(e, f, S, T)
    PROVE  /\ Body(f, {}, F, at) /\ InState(f, "NOT_READ") = S /\ InState(f, "BUFFERED") = T
           /\ f.leftToRead = 0 <=> S = {}
           /\ f.leftToWrite = 0 <=> S \cup T = {}
<1>0. /\ S = {b \in InState(e, "WRITTEN") : e.dirty[b]} /\ T = {b \in InState(e, "BUFFERED") : e.dirty[b]}
      /\ f.src = "dram" /\ f.dest = "pcm" /\ f.rolledBack /\ f.copied = e.copied /\ f.unread = {}
      /\ f.state = [b \in Blocks |-> IF b \in S THEN "NOT_READ" ELSE IF b \in T THEN "BUFFERED" ELSE "WRITTEN"]
      /\ f.leftToRead = Cardinality(S) /\ f.leftToCompleteRead = Cardinality(S)
      /\ f.leftToWrite = Cardinality(S \cup T)
    BY DEF RolledBack
<1>1. Sides(e, at) /\ Counts(e, {}) /\ Answers(e, {}) /\ Held(e, F)
    BY DEF Body
<1>2. e.state \in [Blocks -> States] /\ e.dirty \in [Blocks -> BOOLEAN] /\ e.src \in Mems
    BY DEF Entry, States
<1>3. e.src = "pcm" /\ at = "pcm"
    BY <1>1, <1>2 DEF Sides, Mems
<1>4. S \subseteq Blocks /\ T \subseteq Blocks /\ S \cap T = {}
    BY <1>0 DEF InState
<1>5. /\ InState(f, "NOT_READ") = S /\ InState(f, "BUFFERED") = T
      /\ InState(f, "WRITTEN") = Blocks \ (S \cup T)
    <2>1. \A b \in Blocks : f.state[b] = IF b \in S THEN "NOT_READ"
                                         ELSE IF b \in T THEN "BUFFERED" ELSE "WRITTEN"
        BY <1>0
    <2> QED
        BY <1>4, <2>1 DEF InState
<1>6. /\ NumBlocks \in Nat /\ IsFiniteSet(Blocks) /\ Cardinality(Blocks) = NumBlocks
      /\ IsFiniteSet({}) /\ Cardinality({}) = 0
    BY PageCopyAssumption, FS_Interval, FS_EmptySet DEF Blocks
<1>7. /\ IsFiniteSet(S) /\ Cardinality(S) \in Nat /\ Cardinality(S) <= NumBlocks
      /\ IsFiniteSet(S \cup T) /\ Cardinality(S \cup T) \in Nat
    <2>1. S \cup T \subseteq Blocks
        BY <1>4
    <2> QED
        BY <1>4, <1>6, <2>1, FS_Subset, FS_CardinalityType
<1>8. (Cardinality(S) = 0 <=> S = {}) /\ (Cardinality(S \cup T) = 0 <=> S \cup T = {})
    BY <1>7, FS_EmptySet
<1>9. Cardinality(InState(f, "WRITTEN")) = NumBlocks - Cardinality(S \cup T)
    <2>1. S \cup T \in SUBSET Blocks
        BY <1>4
    <2>2. Cardinality(Blocks \ (S \cup T)) = NumBlocks - Cardinality(S \cup T)
        BY <2>1, OtherBlocks
    <2> QED
        BY <1>5, <2>2
<1>10. Counts(f, {})
    <2>1. f.leftToRead = Cardinality(InState(f, "NOT_READ")) /\ Cardinality(f.unread) = 0
        BY <1>0, <1>5, <1>6
    <2>2. /\ f.leftToCompleteRead = f.leftToRead + Cardinality({}) + Cardinality(f.unread)
          /\ f.leftToCompleteRead <= NumBlocks
          /\ f.leftToWrite = NumBlocks - Cardinality(InState(f, "WRITTEN"))
        BY <1>0, <1>6, <1>7, <1>9, <2>1
    <2> QED
        BY <1>0, <1>6, <2>1, <2>2 DEF Counts
<1>11. Held(f, F)
    <2>1. SUFFICES ASSUME NEW b \in Blocks
                   PROVE  /\ f.state[b] \in {"NOT_READ", "READING"} => "dram" \in F[b]
                          /\ f.state[b] = "BUFFERED" => "buffer" \in F[b]
                          /\ f.state[b] = "WRITTEN" => "pcm" \in F[b]
        BY <1>0 DEF Held
    <2>2. /\ e.state[b] \in {"NOT_READ", "READING"} => "pcm" \in F[b]
          /\ e.state[b] = "BUFFERED" => "buffer" \in F[b]
          /\ e.state[b] = "WRITTEN" => "dram" \in F[b]
          /\ ~e.dirty[b] => "pcm" \in F[b]
        BY <1>1, <1>3 DEF Held
    <2>3. f.state[b] = IF b \in S THEN "NOT_READ" ELSE IF b \in T THEN "BUFFERED" ELSE "WRITTEN"
        BY <1>0
    <2>4. /\ b \in S => e.state[b] = "WRITTEN"
          /\ b \in T => e.state[b] = "BUFFERED"
          /\ b \notin S /\ b \notin T => ~e.dirty[b] \/ e.state[b] \in {"NOT_READ", "READING"}
        BY <1>0, <1>2 DEF InState, States
    <2> QED
        BY <2>2, <2>3, <2>4
<1>12. Sides(f, at) /\ Answers(f, {})
    BY <1>0, <1>3 DEF Sides, Answers
<1> QED
    BY <1>0, <1>5, <1>8, <1>10, <1>11, <1>12 DEF Body

\* A promotion is rolled back.
LEMMA RollbackAgrees ==
    ASSUME IInv, CalmRollback, NEW p \in Pages, Rollback(p)
    PROVE  (\A q \in Pages : Agrees(q)') /\ StalledWait'
<1> DEFINE old == migrations[p]
           toRead == {b \in InState(old, "WRITTEN") : old.dirty[b]}
           buffered == {b \in InState(old, "BUFFERED") : old.dirty[b]}
           chain == IF toRead # {} THEN {<<"READ", p>>} ELSE {}
           writing == IF buffered # {} /\ old.nextWrite = -1 THEN {<<"WRITE", p>>} ELSE {}
           state == [b \in Blocks |-> IF b \in toRead THEN "NOT_READ"
                                      ELSE IF b \in buffered THEN "BUFFERED" ELSE "WRITTEN"]
           nextRead == IF toRead = {} THEN old.nextRead ELSE First(toRead)
           nextWrite == IF toRead \cup buffered = {} THEN old.nextWrite
                        ELSE IF buffered = {} THEN -1 ELSE First(buffered)
           new == IF toRead \cup buffered = {} THEN {<<"COPY", p>>} ELSE chain \cup writing
           size == Cardinality(toRead)
           both == Cardinality(toRead \cup buffered)
           f == [old EXCEPT !.src = "dram", !.dest = "pcm", !.rolledBack = TRUE, !.unread = {},
                     !.state = state, !.leftToRead = size, !.leftToCompleteRead = size,
                     !.leftToWrite = both, !.nextRead = nextRead, !.nextWrite = nextWrite]
<1>1. /\ p \in Migrating /\ old.dest = "dram" /\ ~old.copied /\ IsCalm(p)
      /\ migrations' = Put(p, f)
      /\ AddEvents(new)
      /\ UNCHANGED <<reads, notifications, fresh, accesses, placeVars, stallVars, memVars>>
    BY DEF Rollback
<1>2. /\ TypeOK /\ TableTyped /\ old \in Entry
      /\ stalledOnRead \in Seq(Pages) /\ stalledOnWrite \in Seq(Pages)
      /\ Body(old, CountedReads(p), fresh[p], location[p])
      /\ ReadCursor(old) /\ ReadLinked(old, ReadChain(p))
      /\ WriteCursor(old) /\ WriteLinked(old, WriteChain(p))
    BY <1>1, CopyBefore, TypesGive DEF IInv
<1>3. /\ CountedReads(p) = {}
      /\ ~Contains(stalledOnRead, p) /\ Occurrences(stalledOnRead, p) = 0
      /\ Occurrences(stalledOnWrite, p) = 0
      /\ events[<<"READ", p>>] = 0 /\ events[<<"COPY", p>>] = 0
      /\ events[<<"WRITE", p>>] # 0 => buffered # {}
    <2>1. events[<<"READ", p>>] \in Nat /\ events[<<"COPY", p>>] \in Nat /\ events[<<"WRITE", p>>] \in Nat
        BY <1>2, ChainsAre
    <2>2. CountedReads(p) = {} /\ ~Contains(stalledOnRead, p) /\ ~Contains(stalledOnWrite, p)
        BY <1>1 DEF IsCalm, CountedReads
    <2>3. Occurrences(stalledOnRead, p) = 0 /\ Occurrences(stalledOnWrite, p) = 0
        BY <1>2, <2>2, OccurrencesNone
    <2>4. ~ (events[<<"READ", p>>] > 0) /\ ~ (events[<<"COPY", p>>] > 0)
          /\ (events[<<"WRITE", p>>] > 0 => buffered # {})
        BY <1>1 DEF IsCalm, Pending
    <2> HIDE DEF buffered
    <2> QED
        BY <2>1, <2>2, <2>3, <2>4
<1>4. /\ toRead = {b \in InState(old, "WRITTEN") : old.dirty[b]}
      /\ buffered = {b \in InState(old, "BUFFERED") : old.dirty[b]}
      /\ toRead \in SUBSET Blocks /\ buffered \in SUBSET Blocks /\ buffered \subseteq InState(old, "BUFFERED")
    BY DEF InState
<1>5. state = [b \in Blocks |-> IF b \in toRead THEN "NOT_READ"
                                ELSE IF b \in buffered THEN "BUFFERED" ELSE "WRITTEN"]
      /\ state \in [Blocks -> States]
    BY DEF States
<1> HIDE DEF old, toRead, buffered, state, new
<1>6. size \in Nat /\ both \in Nat
    <2>1. IsFiniteSet(Blocks) /\ toRead \cup buffered \in SUBSET Blocks
        BY <1>4, PageCopyAssumption, FS_Interval DEF Blocks
    <2> QED
        BY <1>4, <2>1, FS_Subset, FS_CardinalityType
<1>7. /\ nextRead \in Blocks /\ \A b \in toRead : nextRead <= b
      /\ IF buffered # {} THEN nextWrite \in buffered
         ELSE IF toRead # {} THEN nextWrite = -1 ELSE nextWrite = old.nextWrite
      /\ nextWrite \in Blocks \cup {-1}
    <2>1. toRead # {} => First(toRead) \in toRead /\ \A b \in toRead : First(toRead) <= b
        BY <1>4, FirstIs
    <2>2. buffered # {} => First(buffered) \in buffered
        BY <1>4, FirstIs
    <2>3. old.nextRead \in Blocks /\ old.nextWrite \in Blocks \cup {-1}
        BY <1>2 DEF ReadCursor, Entry
    <2> QED
        BY <1>4, <2>1, <2>2, <2>3
<1>8. nextRead \in Nat
    BY <1>7, PageCopyAssumption DEF Blocks
<1> HIDE DEF size, both, nextRead, nextWrite
<1>9. /\ f \in Entry
      /\ f.src = "dram" /\ f.dest = "pcm" /\ f.rolledBack /\ f.copied = old.copied /\ f.unread = {}
      /\ f.state = state /\ f.leftToRead = size /\ f.leftToCompleteRead = size /\ f.leftToWrite = both
      /\ f.nextRead = nextRead /\ f.nextWrite = nextWrite
    BY <1>2, <1>5, <1>6, <1>7, <1>8 DEF Entry, Mems, States
<1> HIDE DEF f
<1>10. /\ Body(f, {}, fresh[p], location[p])
       /\ InState(f, "NOT_READ") = toRead /\ InState(f, "BUFFERED") = buffered
       /\ f.leftToRead = 0 <=> toRead = {}
       /\ f.leftToWrite = 0 <=> toRead \cup buffered = {}
    <2> DEFINE F == fresh[p]
               at == location[p]
    <2>1. Body(old, {}, F, at)
        BY <1>2, <1>3
    <2>2. RolledBack(old, f, toRead, buffered)
        <3>1. /\ f.leftToRead = Cardinality(toRead) /\ f.leftToCompleteRead = Cardinality(toRead)
              /\ f.leftToWrite = Cardinality(toRead \cup buffered)
            BY <1>9 DEF size, both
        <3>2. f.state = [b \in Blocks |-> IF b \in toRead THEN "NOT_READ"
                                           ELSE IF b \in buffered THEN "BUFFERED" ELSE "WRITTEN"]
            BY <1>5, <1>9
        <3> QED
            BY <1>4, <1>9, <3>1, <3>2 DEF RolledBack
    <2> HIDE DEF F, at
    <2>3. /\ Body(f, {}, F, at)
          /\ InState(f, "NOT_READ") = toRead /\ InState(f, "BUFFERED") = buffered
          /\ f.leftToRead = 0 <=> toRead = {}
          /\ f.leftToWrite = 0 <=> toRead \cup buffered = {}
        BY <1>1, <1>2, <1>9, <2>1, <2>2, BodyRolledBack
    <2> QED
        BY <2>3 DEF F, at
<1>11. /\ events'[<<"READ", p>>] = IF toRead = {} THEN 0 ELSE 1
       /\ events'[<<"WRITE", p>>] = events[<<"WRITE", p>>]
                                        + IF buffered # {} /\ old.nextWrite = -1 THEN 1 ELSE 0
       /\ events'[<<"COPY", p>>] = IF toRead \cup buffered = {} THEN 1 ELSE 0
       /\ \A k \in Kinds, q \in Pages \ {p} : events'[<<k, q>>] = events[<<k, q>>]
    <2>1. \A k \in Kinds, q \in Pages :
              events'[<<k, q>>] = events[<<k, q>>] + IF <<k, q>> \in new THEN 1 ELSE 0
        BY <1>1, <1>2, AddEventsIs
    <2>2. \A k, q : <<k, q>> \in new <=>
              /\ q = p
              /\ \/ k = "READ" /\ toRead # {}
                 \/ k = "WRITE" /\ buffered # {} /\ old.nextWrite = -1
                 \/ k = "COPY" /\ toRead = {} /\ buffered = {}
        <3>1. CASE toRead \cup buffered = {}
            BY <3>1 DEF new
        <3>2. CASE toRead \cup buffered # {}
            BY <3>2 DEF new
        <3> QED
            BY <3>1, <3>2
    <2>3. "READ" \in Kinds /\ "WRITE" \in Kinds /\ "COPY" \in Kinds /\ events[<<"WRITE", p>>] \in Nat
        BY <1>2, ChainsAre
    <2>4. events'[<<"READ", p>>] = IF toRead = {} THEN 0 ELSE 1
        <3>1. <<"READ", p>> \in new <=> toRead # {}
            BY <2>2
        <3> QED
            BY <1>3, <2>1, <2>3, <3>1
    <2>5. events'[<<"WRITE", p>>] = events[<<"WRITE", p>>]
                                        + IF buffered # {} /\ old.nextWrite = -1 THEN 1 ELSE 0
        <3>1. <<"WRITE", p>> \in new <=> buffered # {} /\ old.nextWrite = -1
            BY <2>2
        <3> QED
            BY <2>1, <2>3, <3>1
    <2>6. events'[<<"COPY", p>>] = IF toRead \cup buffered = {} THEN 1 ELSE 0
        <3>1. <<"COPY", p>> \in new <=> toRead \cup buffered = {}
            BY <2>2
        <3> QED
            BY <1>3, <2>1, <2>3, <3>1
    <2>7. ASSUME NEW k \in Kinds, NEW q \in Pages \ {p} PROVE events'[<<k, q>>] = events[<<k, q>>]
        <3>1. <<k, q>> \notin new /\ events[<<k, q>>] \in Nat
            BY <1>2, <2>2, <2>7 DEF TypeOK
        <3> QED
            BY <2>1, <2>7, <3>1
    <2> QED
        BY <2>4, <2>5, <2>6, <2>7
<1>12. UNCHANGED stallVars /\ UNCHANGED <<setting, location>>
       /\ full \subseteq full' /\ registered \subseteq registered'
    BY <1>1 DEF placeVars, memVars
<1>13. ReadChain(p)' = (IF toRead = {} THEN 0 ELSE 1)
       /\ WriteChain(p)' = events'[<<"WRITE", p>>] /\ WriteChain(p) = events[<<"WRITE", p>>]
    <2>1. ReadChain(p)' = events'[<<"READ", p>>] + 0 /\ WriteChain(p)' = events'[<<"WRITE", p>>] + 0
        BY <1>3, <1>12, ChainsNext
    <2>2. WriteChain(p) = events[<<"WRITE", p>>] + 0
        BY <1>3 DEF WriteChain
    <2>3. events[<<"WRITE", p>>] \in Nat
        BY <1>2, ChainsAre
    <2> QED
        BY <1>11, <2>1, <2>2, <2>3
<1>14. ReadCursor(f) /\ ReadLinked(f, ReadChain(p)')
    BY <1>7, <1>9, <1>10, <1>13 DEF ReadCursor, ReadLinked
<1>15. WriteCursor(f)
    <2>1. CASE buffered = {}
        BY <1>7, <1>9, <1>10, <2>1 DEF WriteCursor
    <2>2. CASE buffered # {}
        BY <1>7, <1>9, <1>10, <2>2 DEF WriteCursor
    <2> QED
        BY <2>1, <2>2
<1>16. WriteLinked(f, WriteChain(p)')
    <2>1. WriteChain(p) \in {0, 1}
        BY <1>2 DEF WriteLinked
    <2>2. CASE WriteChain(p) = 0
        <3>1. WriteChain(p)' = IF buffered # {} /\ old.nextWrite = -1 THEN 1 ELSE 0
            BY <1>11, <1>13, <2>2
        <3>2. OneQueue /\ buffered # {} => old.nextWrite = -1
            <4>1. SUFFICES ASSUME OneQueue, buffered # {} PROVE FALSE
                OBVIOUS
            <4>2. InState(old, "BUFFERED") # {}
                BY <1>4, <4>1
            <4> QED
                BY <1>2, <2>2, <4>1, <4>2 DEF WriteLinked
        <3> QED
            BY <1>10, <3>1, <3>2 DEF WriteLinked
    <2>3. CASE WriteChain(p) = 1
        <3>1. buffered # {}
            BY <1>3, <1>13, <2>3
        <3>2. old.nextWrite \in InState(old, "BUFFERED")
            BY <1>2, <1>4, <3>1 DEF WriteCursor
        <3>3. old.nextWrite # -1
            BY <3>2, PageCopyAssumption DEF InState, Blocks
        <3> QED
            BY <1>10, <1>11, <1>13, <2>3, <3>1, <3>3 DEF WriteLinked
    <2> QED
        BY <2>1, <2>2, <2>3
<1>17. CopyLinked(f, events'[<<"COPY", p>>])
    <2>1. f.leftToCompleteRead = f.leftToRead
        BY <1>9
    <2> QED
        BY <1>9, <1>10, <1>11, <2>1 DEF CopyLinked, IsComplete
<1>18. /\ p \in Migrating' /\ migrations'[p] = f
       /\ \A q \in Pages \ {p} : /\ q \in Migrating' <=> q \in Migrating
                                 /\ q \in Migrating => migrations'[q] = migrations[q]
    BY <1>1, <1>2, <1>9, PutIs
<1>19. \A q \in Pages : CountedReads(q)' = CountedReads(q) /\ fresh'[q] = fresh[q]
    BY <1>1 DEF CountedReads
<1>20. OthersKept(p) /\ StaysHeld(p, f)
    BY <1>3, <1>11, <1>18, <1>19 DEF OthersKept, StaysHeld
<1>21. Body(f, CountedReads(p)', fresh'[p], location[p])
    BY <1>3, <1>10, <1>19
<1> QED
    BY <1>9, <1>12, <1>14, <1>15, <1>16, <1>17, <1>18, <1>20, <1>21, CopyChanges

-----------------------------------------------------------------------------
(* The rest of a copy *)

\* Page p is listed as stalled while reading, or while writing.
Listed(k, p) ==
    /\ stalledOnRead' = IF k = "READ" THEN Append(stalledOnRead, p) ELSE stalledOnRead
    /\ stalledOnWrite' = IF k = "WRITE" THEN Append(stalledOnWrite, p) ELSE stalledOnWrite

\* An event of page p becomes a place in the list of those that stalled.
LEMMA StalledChains ==
    ASSUME TypeOK, NEW p \in Pages, NEW k \in {"READ", "WRITE"}, Pending(k, p), TakeEvent(<<k, p>>, {}),
           Listed(k, p)
    PROVE  \A q \in Pages : /\ ReadChain(q)' = ReadChain(q) /\ WriteChain(q)' = WriteChain(q)
                            /\ events'[<<"COPY", q>>] = events[<<"COPY", q>>]
<1>1. k \in Kinds /\ stalledOnRead \in Seq(Pages) /\ stalledOnWrite \in Seq(Pages)
    BY TypesGive DEF Kinds
<1>2. TakeEvent(<<k, p>>, IF FALSE THEN {<<k, p>>} ELSE {})
    OBVIOUS
<1>3. /\ events[<<k, p>>] \in Nat \ {0} /\ events'[<<k, p>>] = events[<<k, p>>] - IF FALSE THEN 0 ELSE 1
      /\ \A j \in Kinds \ {k} : events'[<<j, p>>] = events[<<j, p>>]
      /\ \A j \in Kinds, q \in Pages \ {p} : events'[<<j, q>>] = events[<<j, q>>]
    BY <1>1, <1>2, TakenFor
<1> SUFFICES ASSUME NEW q \in Pages
             PROVE  /\ ReadChain(q)' = ReadChain(q) /\ WriteChain(q)' = WriteChain(q)
                    /\ events'[<<"COPY", q>>] = events[<<"COPY", q>>]
    OBVIOUS
<1>4. /\ events[<<"READ", q>>] \in Nat /\ events[<<"WRITE", q>>] \in Nat
      /\ Occurrences(stalledOnRead, q) \in Nat /\ Occurrences(stalledOnWrite, q) \in Nat
      /\ "READ" \in Kinds /\ "WRITE" \in Kinds /\ "COPY" \in Kinds
    BY ChainsAre
<1>5. /\ Occurrences(stalledOnRead', q)
             = Occurrences(stalledOnRead, q) + IF k = "READ" /\ q = p THEN 1 ELSE 0
      /\ Occurrences(stalledOnWrite', q)
             = Occurrences(stalledOnWrite, q) + IF k = "WRITE" /\ q = p THEN 1 ELSE 0
    <2>1. /\ Occurrences(Append(stalledOnRead, p), q) = Occurrences(stalledOnRead, q) + IF q = p THEN 1 ELSE 0
          /\ Occurrences(Append(stalledOnWrite, p), q) = Occurrences(stalledOnWrite, q) + IF q = p THEN 1 ELSE 0
        BY <1>1, OccurrencesAppended
    <2>2. CASE k = "READ"
        BY <1>4, <2>1, <2>2 DEF Listed
    <2>3. CASE k = "WRITE"
        BY <1>4, <2>1, <2>3 DEF Listed
    <2> QED
        BY <2>2, <2>3
<1>6. /\ ReadChain(q)' = events'[<<"READ", q>>] + Occurrences(stalledOnRead', q)
      /\ WriteChain(q)' = events'[<<"WRITE", q>>] + Occurrences(stalledOnWrite', q)
      /\ ReadChain(q) = events[<<"READ", q>>] + Occurrences(stalledOnRead, q)
      /\ WriteChain(q) = events[<<"WRITE", q>>] + Occurrences(stalledOnWrite, q)
    BY DEF ReadChain, WriteChain, Occurrences
<1>7. CASE q # p
    <2>1. /\ events'[<<"READ", q>>] = events[<<"READ", q>>] /\ events'[<<"WRITE", q>>] = events[<<"WRITE", q>>]
          /\ events'[<<"COPY", q>>] = events[<<"COPY", q>>]
        BY <1>3, <1>4, <1>7
    <2> QED
        BY <1>4, <1>5, <1>6, <1>7, <2>1
<1>8. CASE q = p /\ k = "READ"
    <2>1. /\ events'[<<"READ", q>>] = events[<<"READ", q>>] - 1 /\ events'[<<"WRITE", q>>] = events[<<"WRITE", q>>]
          /\ events'[<<"COPY", q>>] = events[<<"COPY", q>>]
        BY <1>3, <1>4, <1>8
    <2> QED
        BY <1>4, <1>5, <1>6, <1>8, <2>1
<1>9. CASE q = p /\ k = "WRITE"
    <2>1. /\ events'[<<"READ", q>>] = events[<<"READ", q>>] /\ events'[<<"WRITE", q>>] = events[<<"WRITE", q>>] - 1
          /\ events'[<<"COPY", q>>] = events[<<"COPY", q>>]
        BY <1>3, <1>4, <1>9
    <2>2. /\ Occurrences(stalledOnRead', q) = Occurrences(stalledOnRead, q)
          /\ Occurrences(stalledOnWrite', q) = Occurrences(stalledOnWrite, q) + 1
        BY <1>4, <1>5, <1>9
    <2>3. ReadChain(q)' = ReadChain(q)
        BY <1>6, <2>1, <2>2
    <2>4. WriteChain(q)' = WriteChain(q)
        BY <1>4, <1>6, <2>1, <2>2
    <2> QED
        BY <2>1, <2>3, <2>4
<1> QED
    BY <1>7, <1>8, <1>9

\* A buffered block is written to the destination, or the page stalls.
LEMMA WriteEventAgrees ==
    ASSUME IInv, NEW p \in Pages, WriteEvent(p)
    PROVE  (\A q \in Pages : Agrees(q)') /\ StalledWait'
<1> DEFINE old == migrations[p]
           b == old.nextWrite
           e == [old EXCEPT !.state[b] = "WRITTEN", !.leftToWrite = Dec(@)]
           left == InState(e, "BUFFERED")
           goesOn == e.leftToWrite > 0 /\ left # {}
           next == IF e.leftToWrite = 0 THEN b ELSE IF left = {} THEN -1 ELSE First(left)
           f == [e EXCEPT !.nextWrite = next]
           more == IF goesOn THEN {<<"WRITE", p>>} ELSE {}
<1>1. /\ p \in Migrating /\ Pending("WRITE", p)
      /\ UNCHANGED <<notifications, accesses, placeVars>>
      /\ \/ old.leftToWrite = 0
         \/ /\ CopyAccepted(old.dest, stalledOnWrite)
            /\ Take(old.dest)
            /\ Copied(p, b, "buffer", old.dest)
            /\ PutOrComplete(p, f, reads)
            /\ TakeEvent(<<"WRITE", p>>, more)
            /\ UNCHANGED <<stallVars, stalledCallers, registered>>
         \/ /\ IF stalledOnWrite = <<>> THEN Stall(old.dest) ELSE UNCHANGED memVars
            /\ stalledOnWrite' = Append(stalledOnWrite, p)
            /\ TakeEvent(<<"WRITE", p>>, {})
            /\ UNCHANGED <<migrations, reads, fresh, stalledOnRead>>
    BY DEF WriteEvent
<1>2. /\ TypeOK /\ old \in Entry /\ reads \in SUBSET Reads
      /\ Body(old, CountedReads(p), fresh[p], location[p])
      /\ Counts(old, CountedReads(p))
      /\ ReadCursor(old) /\ ReadLinked(old, ReadChain(p))
      /\ WriteCursor(old) /\ WriteLinked(old, WriteChain(p))
      /\ CopyLinked(old, events[<<"COPY", p>>])
    BY <1>1, CopyBefore, TypesGive DEF IInv
<1>3. /\ events[<<"WRITE", p>>] = 1 /\ Occurrences(stalledOnWrite, p) = 0
      /\ InState(old, "BUFFERED") # {} /\ b \in InState(old, "BUFFERED")
    <2>1. /\ events[<<"WRITE", p>>] \in Nat /\ Occurrences(stalledOnWrite, p) \in Nat
          /\ events[<<"WRITE", p>>] > 0
        BY <1>1, <1>2, ChainsAre DEF Pending
    <2>2. WriteChain(p) = events[<<"WRITE", p>>] + Occurrences(stalledOnWrite, p)
        BY DEF WriteChain
    <2>3. WriteChain(p) \in {0, 1} /\ (InState(old, "BUFFERED") = {} => WriteChain(p) = 0)
        BY <1>2 DEF WriteLinked
    <2>4. events[<<"WRITE", p>>] = 1 /\ Occurrences(stalledOnWrite, p) = 0 /\ WriteChain(p) = 1
        BY <2>1, <2>2, <2>3
    <2> QED
        BY <1>2, <2>3, <2>4 DEF WriteCursor
<1>4. b \in Blocks /\ old.state[b] = "BUFFERED" /\ old.dest \in Mems /\ old.leftToWrite \in Nat
    BY <1>2, <1>3 DEF InState, Entry
<1>5. old.leftToWrite > 0 /\ old.leftToWrite \in 1 .. NumBlocks
    <2>1. old.leftToWrite > 0 /\ old.leftToWrite \in 0 .. NumBlocks
        BY <1>2, <1>4, CountsSay
    <2> QED
        BY <2>1, PageCopyAssumption
<1> HIDE DEF old
<1>6. UNCHANGED <<setting, location>>
    BY <1>1 DEF placeVars
<1>7. "WRITE" \in Kinds /\ "READ" \in Kinds \ {"WRITE"} /\ "COPY" \in Kinds \ {"WRITE"}
    BY DEF Kinds
<1>8. CASE /\ CopyAccepted(old.dest, stalledOnWrite)
           /\ Take(old.dest)
           /\ Copied(p, b, "buffer", old.dest)
           /\ PutOrComplete(p, f, reads)
           /\ TakeEvent(<<"WRITE", p>>, more)
           /\ UNCHANGED <<stallVars, stalledCallers, registered>>
    <2>1. Dec(old.leftToWrite) \in Nat /\ Dec(old.leftToWrite) = old.leftToWrite - 1
        BY <1>4, <1>5, DecIs
    <2>2. /\ e.state = [old.state EXCEPT ![b] = "WRITTEN"] /\ e.leftToWrite = Dec(old.leftToWrite)
          /\ left \in SUBSET Blocks
        BY <1>2, <1>4 DEF Entry, InState
    <2>3. left # {} => First(left) \in left
        BY <2>2, FirstIs
    <2>4. next \in Blocks \cup {-1}
        BY <1>4, <2>2, <2>3
    <2>5. /\ next = IF e.leftToWrite = 0 THEN b ELSE IF left = {} THEN -1 ELSE First(left)
          /\ goesOn <=> e.leftToWrite > 0 /\ left # {}
          /\ goesOn \in BOOLEAN
          /\ left = InState(e, "BUFFERED")
          /\ f = [e EXCEPT !.nextWrite = next]
          /\ TakeEvent(<<"WRITE", p>>, IF goesOn THEN {<<"WRITE", p>>} ELSE {})
          /\ e = [old EXCEPT !.state[b] = "WRITTEN", !.leftToWrite = Dec(@)]
        BY <1>8
    <2> HIDE DEF goesOn, next, left, e, b, more
    <2>6. /\ e \in Entry /\ Same(old, e) /\ e.dirty = old.dirty /\ e.unread = old.unread
          /\ e.leftToRead = old.leftToRead /\ e.leftToCompleteRead = old.leftToCompleteRead
          /\ e.nextRead = old.nextRead
        BY <1>2, <1>4, <2>1, <2>5 DEF Entry, Same
    <2>7. /\ f \in Entry /\ Same(old, f) /\ f.state = e.state /\ f.dirty = old.dirty /\ f.unread = old.unread
          /\ f.leftToRead = old.leftToRead /\ f.leftToCompleteRead = old.leftToCompleteRead
          /\ f.leftToWrite = e.leftToWrite
          /\ f.nextRead = old.nextRead /\ f.nextWrite = next
        <3>1. f = [e EXCEPT !.nextWrite = next] /\ e \in Entry /\ next \in Blocks \cup {-1}
            BY <2>4, <2>5, <2>6
        <3>2. f \in Entry
            BY <3>1 DEF Entry
        <3>3. /\ f.src = e.src /\ f.dest = e.dest /\ f.rolledBack = e.rolledBack /\ f.copied = e.copied
              /\ f.state = e.state /\ f.dirty = e.dirty /\ f.unread = e.unread
              /\ f.leftToRead = e.leftToRead /\ f.leftToCompleteRead = e.leftToCompleteRead
              /\ f.leftToWrite = e.leftToWrite /\ f.nextRead = e.nextRead /\ f.nextWrite = next
            BY <3>1 DEF Entry
        <3> HIDE DEF e
        <3>4. Same(old, f)
            BY <2>6, <3>3 DEF Same
        <3> QED
            BY <2>6, <3>2, <3>3, <3>4
    <2>8. f.state = [old.state EXCEPT ![b] = "WRITTEN"] /\ f.leftToWrite = Dec(old.leftToWrite)
        BY <2>2, <2>7
    <2>9. PutOrComplete(p, f, reads)
        BY <1>8
    <2> HIDE DEF f
    <2>10. /\ fresh'[p] = [fresh[p] EXCEPT ![b] = IF "buffer" \in @ THEN @ \cup {old.dest} ELSE @ \ {old.dest}]
           /\ \A q \in Pages \ {p} : fresh'[q] = fresh[q]
        BY <1>2, <1>4, <1>8, CopiedIs
    <2>11. Rehoused(fresh[p], fresh'[p], b,
                    IF "buffer" \in fresh[p][b] THEN fresh[p][b] \cup {old.dest} ELSE fresh[p][b] \ {old.dest})
        BY <1>2, <1>4, <2>10 DEF Rehoused, TypeOK
    <2>12. /\ Body(f, CountedReads(p), fresh'[p], location[p]) /\ f.leftToWrite = old.leftToWrite - 1
           /\ InState(f, "NOT_READ") = InState(old, "NOT_READ")
        <3>1. Wrote(old, f, b)
            BY <1>2, <1>4, <2>7, <2>8 DEF Wrote
        <3> QED
            BY <1>2, <2>11, <3>1, BodyWritten
    <2>13. /\ events'[<<"WRITE", p>>] = events[<<"WRITE", p>>] - IF goesOn THEN 0 ELSE 1
           /\ \A j \in Kinds \ {"WRITE"} : events'[<<j, p>>] = events[<<j, p>>]
           /\ \A j \in Kinds, q \in Pages \ {p} : events'[<<j, q>>] = events[<<j, q>>]
        BY <1>1, <1>2, <1>7, <2>5, TakenFor
    <2>14. UNCHANGED stallVars /\ full \subseteq full' /\ registered \subseteq registered'
        BY <1>2, <1>4, <1>8, MemTypedKept
    <2>15. /\ ReadChain(p)' = ReadChain(p)
           /\ WriteChain(p)' = IF goesOn THEN 1 ELSE 0
        <3>1. /\ ReadChain(p)' = events'[<<"READ", p>>] + Occurrences(stalledOnRead, p)
              /\ WriteChain(p)' = events'[<<"WRITE", p>>] + Occurrences(stalledOnWrite, p)
            BY <2>14, ChainsNext
        <3>2. ReadChain(p)' = ReadChain(p)
            BY <1>7, <2>13, <3>1 DEF ReadChain
        <3>3. WriteChain(p)' = IF goesOn THEN 1 ELSE 0
            BY <1>3, <2>5, <2>13, <3>1
        <3> QED
            BY <3>2, <3>3
    <2>16. ReadCursor(f) /\ ReadLinked(f, ReadChain(p)')
        BY <1>2, <2>7, <2>12, <2>15, ReadLinksKept
    <2>17. left = InState(f, "BUFFERED") /\ (left # {} => f.leftToWrite > 0) /\ f.leftToWrite \in Nat
        <3>1. left = InState(f, "BUFFERED")
            BY <2>5, <2>7 DEF InState
        <3>2. Counts(f, CountedReads(p))
            BY <2>12 DEF Body
        <3>3. \A c \in Blocks : f.state[c] # "WRITTEN" => f.leftToWrite > 0
            BY <2>7, <3>2, CountsSay
        <3> QED
            BY <2>7, <3>1, <3>3 DEF InState, Entry
    <2>18. WriteCursor(f) /\ WriteLinked(f, WriteChain(p)')
        <3>1. CASE left = {}
            BY <2>5, <2>7, <2>15, <2>17, <3>1 DEF WriteCursor, WriteLinked
        <3>2. CASE left # {}
            <4>1. f.nextWrite = First(left) /\ goesOn /\ f.nextWrite \in left
                BY <2>3, <2>5, <2>7, <2>17, <3>2
            <4>2. WriteChain(p)' = 1
                BY <2>15, <4>1
            <4> QED
                BY <2>17, <3>2, <4>1, <4>2 DEF WriteCursor, WriteLinked
        <3> QED
            BY <3>1, <3>2
    <2>19. events'[<<"COPY", p>>] = 0 /\ CopyLinked(f, events'[<<"COPY", p>>])
        <3>1. ~IsComplete(old) /\ events'[<<"COPY", p>>] = events[<<"COPY", p>>]
            BY <1>5, <1>7, <2>13 DEF IsComplete
        <3> QED
            BY <1>2, <3>1 DEF CopyLinked
    <2>20. StaysHeld(p, f)
        <3>1. old.dest \notin full
            BY <1>8 DEF CopyAccepted
        <3> QED
            BY <2>7, <3>1 DEF StaysHeld, HeldUpBy, Same, old
    <2>21. \A q \in Pages : Counted(reads, q) = CountedReads(q)
        BY DEF Counted, CountedReads
    <2>22. Body(f, Counted(reads, p), fresh'[p], location[p])
        BY <2>12, <2>21
    <2> QED
        BY <1>1, <1>2, <1>6, <2>7, <2>9, <2>10, <2>13, <2>14, <2>16, <2>18, <2>19, <2>20, <2>21, <2>22,
           PutBackAgrees
<1>9. CASE /\ IF stalledOnWrite = <<>> THEN Stall(old.dest) ELSE UNCHANGED memVars
           /\ stalledOnWrite' = Append(stalledOnWrite, p)
           /\ TakeEvent(<<"WRITE", p>>, {})
           /\ UNCHANGED <<migrations, reads, fresh, stalledOnRead>>
    <2>1. Listed("WRITE", p)
        BY <1>9 DEF Listed
    <2>2. \A q \in Pages : /\ ReadChain(q)' = ReadChain(q) /\ WriteChain(q)' = WriteChain(q)
                           /\ events'[<<"COPY", q>>] = events[<<"COPY", q>>]
        BY <1>1, <1>2, <1>9, <2>1, StalledChains
    <2>3. Migrating' = Migrating /\ \A q : CountedReads(q)' = CountedReads(q)
        BY <1>9 DEF Migrating, CountedReads
    <2>4. \A q \in Pages : Undisturbed(q)
        BY <1>6, <1>9, <2>2, <2>3 DEF Undisturbed
    <2>5. \A q \in Pages : Agrees(q)'
        BY <1>6, <2>4, Elsewhere DEF IInv
    <2>6. full \subseteq full' /\ registered \subseteq registered'
        <3>1. CASE stalledOnWrite = <<>>
            BY <1>2, <1>4, <1>9, <3>1, MemTypedKept
        <3>2. CASE stalledOnWrite # <<>>
            BY <1>9, <3>2 DEF memVars
        <3> QED
            BY <3>1, <3>2
    <2>7. StalledWait'
        BY <1>9, <2>3, <2>6, WaitKept DEF IInv
    <2> QED
        BY <2>5, <2>7
<1> QED
    BY <1>1, <1>5, <1>8, <1>9

\* Of a copy that has blocks to read, every memory may be what it waits for.
LEMMA ReadersAreHeldUp ==
    ASSUME NEW e \in Entry, NEW R, Counts(e, R), e.leftToRead > 0, NEW m
    PROVE  HeldUpBy(e, m) /\ e.leftToWrite > 0 /\ InState(e, "NOT_READ") # {}
<1>1. InState(e, "NOT_READ") # {}
    BY CountsSay DEF Entry
<1>2. PICK b \in Blocks : e.state[b] = "NOT_READ"
    BY <1>1 DEF InState
<1>3. e.leftToWrite > 0
    BY <1>2, CountsSay
<1> QED
    BY <1>1, <1>3 DEF HeldUpBy

\* A page is added to those that stalled while reading.
LEMMA StalledMore ==
    ASSUME IInv, NEW p \in Migrating, ~Contains(stalledOnRead, p),
           stalledOnRead' = Append(stalledOnRead, p),
           Migrating' = Migrating, \A q \in Migrating \ {p} : migrations'[q] = migrations[q],
           \A m : HeldUpBy(migrations'[p], m),
           full' = full, registered \subseteq registered',
           stalledOnRead = <<>> => \E m \in full : m \in registered'
    PROVE  StalledWait'
<1>1. stalledOnRead \in Seq(Pages) /\ p \in Pages
    BY CopyBefore, TypesGive DEF IInv
<1>2. /\ DOMAIN stalledOnRead = 1 .. Len(stalledOnRead) /\ Len(stalledOnRead) \in Nat
      /\ DOMAIN Append(stalledOnRead, p) = 1 .. Len(stalledOnRead) + 1
      /\ Append(stalledOnRead, p)[Len(stalledOnRead) + 1] = p
      /\ \A i \in 1 .. Len(stalledOnRead) : Append(stalledOnRead, p)[i] = stalledOnRead[i]
    BY <1>1, LenProperties, AppendProperties
<1>3. PICK m \in full \cap registered' : \A i \in DOMAIN stalledOnRead :
          stalledOnRead[i] \in Migrating /\ HeldUpBy(migrations[stalledOnRead[i]], m)
    <2>1. CASE stalledOnRead = <<>>
        BY <1>2, <2>1
    <2>2. CASE stalledOnRead # <<>>
        BY <2>2 DEF IInv, StalledWait
    <2> QED
        BY <2>1, <2>2
<1>4. \A i \in DOMAIN stalledOnRead : stalledOnRead[i] # p
    BY <1>1, OccurrencesNone
<1>5. \A i \in DOMAIN stalledOnRead' : stalledOnRead'[i] \in Migrating' /\ HeldUpBy(migrations'[stalledOnRead'[i]], m)
    <2>1. SUFFICES ASSUME NEW i \in 1 .. Len(stalledOnRead) + 1, NEW q, q = Append(stalledOnRead, p)[i]
                   PROVE  q \in Migrating /\ HeldUpBy(migrations'[q], m)
        BY <1>2
    <2>2. CASE i = Len(stalledOnRead) + 1
        BY <1>2, <2>1, <2>2
    <2>3. CASE i # Len(stalledOnRead) + 1
        <3>1. i \in 1 .. Len(stalledOnRead) /\ i \in DOMAIN stalledOnRead
            BY <1>2, <2>3
        <3>2. q = stalledOnRead[i]
            BY <1>2, <2>1, <3>1
        <3> QED
            BY <1>3, <1>4, <3>1, <3>2
    <2> QED
        BY <2>2, <2>3
<1> QED
    BY <1>3, <1>5 DEF StalledWait, HeldUpBy

\* The next block is read by the copy itself, or the page stalls.
LEMMA ReadEventAgrees ==
    ASSUME IInv, NEW p \in Pages, ReadEvent(p)
    PROVE  (\A q \in Pages : Agrees(q)') /\ StalledWait'
<1> DEFINE old == migrations[p]
           from == {c \in InState(old, "NOT_READ") : c >= old.nextRead}
           b == First(from)
           e == [old EXCEPT !.state[b] = "READING", !.leftToRead = Dec(@)]
           left == InState(e, "NOT_READ")
           next == IF left = {} THEN b ELSE First(left)
           f == [e EXCEPT !.nextRead = next]
           r == Read(p, b, old.src, FALSE, TRUE)
           more == IF left = {} THEN {} ELSE {<<"READ", p>>}
<1>1. /\ p \in Migrating /\ Pending("READ", p)
      /\ UNCHANGED <<notifications, fresh, accesses, placeVars>>
      /\ \/ /\ old.leftToRead = 0
            /\ TakeEvent(<<"READ", p>>, {})
            /\ UNCHANGED <<migrations, reads, stallVars, memVars>>
         \/ old.leftToRead > 0 /\ from = {}
         \/ /\ old.leftToRead > 0
            /\ Take(old.src)
            /\ migrations' = Put(p, f)
            /\ reads' = reads \cup {r}
            /\ TakeEvent(<<"READ", p>>, more)
            /\ UNCHANGED <<stallVars, stalledCallers, registered>>
         \/ /\ old.leftToRead > 0
            /\ ~CopyAccepted(old.src, stalledOnRead)
            /\ IF stalledOnRead = <<>> THEN Stall(old.src) ELSE UNCHANGED memVars
            /\ migrations' = [migrations EXCEPT ![p].nextRead = b]
            /\ stalledOnRead' = Append(stalledOnRead, p)
            /\ TakeEvent(<<"READ", p>>, {})
            /\ UNCHANGED <<reads, stalledOnWrite>>
    BY DEF ReadEvent
<1>2. /\ TypeOK /\ TableTyped /\ old \in Entry /\ stalledOnRead \in Seq(Pages)
      /\ Body(old, CountedReads(p), fresh[p], location[p])
      /\ Counts(old, CountedReads(p))
      /\ ReadCursor(old) /\ ReadLinked(old, ReadChain(p))
      /\ WriteCursor(old) /\ WriteLinked(old, WriteChain(p))
      /\ CopyLinked(old, events[<<"COPY", p>>])
    BY <1>1, CopyBefore, TypesGive DEF IInv
<1>3. /\ events[<<"READ", p>>] = 1 /\ Occurrences(stalledOnRead, p) = 0 /\ ReadChain(p) = 1
      /\ ~Contains(stalledOnRead, p)
    <2>1. /\ events[<<"READ", p>>] \in Nat /\ Occurrences(stalledOnRead, p) \in Nat
          /\ events[<<"READ", p>>] > 0
        BY <1>1, <1>2, ChainsAre DEF Pending
    <2>2. ReadChain(p) = events[<<"READ", p>>] + Occurrences(stalledOnRead, p)
        BY DEF ReadChain
    <2>3. ReadChain(p) \in {0, 1}
        BY <1>2 DEF ReadLinked
    <2>4. events[<<"READ", p>>] = 1 /\ Occurrences(stalledOnRead, p) = 0 /\ ReadChain(p) = 1
        BY <2>1, <2>2, <2>3
    <2> QED
        BY <1>2, <2>4, OccurrencesNone
<1>4. /\ old.src \in Mems /\ old.leftToRead \in Nat /\ setting.threshold \in Nat
      /\ ~(old.src = "pcm" /\ old.leftToRead > setting.threshold)
    BY <1>2, <1>3, ThresholdIs DEF Entry, ReadLinked
<1>5. from = InState(old, "NOT_READ") /\ from \in SUBSET Blocks
    <2>1. \A c \in InState(old, "NOT_READ") : old.nextRead <= c
        BY <1>2 DEF ReadCursor
    <2>2. InState(old, "NOT_READ") \in SUBSET Blocks /\ old.nextRead \in Blocks
        BY <1>2 DEF InState, ReadCursor
    <2>3. \A c \in InState(old, "NOT_READ") : c >= old.nextRead
        BY <2>1, <2>2, PageCopyAssumption DEF Blocks
    <2> QED
        BY <2>2, <2>3
<1> HIDE DEF old
<1>6. UNCHANGED <<setting, location>> /\ UNCHANGED fresh
    BY <1>1 DEF placeVars
<1>7. "READ" \in Kinds /\ "WRITE" \in Kinds \ {"READ"} /\ "COPY" \in Kinds \ {"READ"}
    BY DEF Kinds
<1>8. CASE /\ old.leftToRead = 0
           /\ TakeEvent(<<"READ", p>>, {})
           /\ UNCHANGED <<migrations, reads, stallVars, memVars>>
    <2>1. TakeEvent(<<"READ", p>>, IF FALSE THEN {<<"READ", p>>} ELSE {})
        BY <1>8
    <2>2. /\ events'[<<"READ", p>>] = events[<<"READ", p>>] - IF FALSE THEN 0 ELSE 1
          /\ \A j \in Kinds \ {"READ"} : events'[<<j, p>>] = events[<<j, p>>]
          /\ \A j \in Kinds, q \in Pages \ {p} : events'[<<j, q>>] = events[<<j, q>>]
        BY <1>1, <1>2, <1>7, <2>1, TakenFor
    <2>3. UNCHANGED stallVars /\ full \subseteq full' /\ registered \subseteq registered'
        BY <1>8 DEF memVars
    <2>4. ReadChain(p)' = 0 /\ WriteChain(p)' = WriteChain(p)
        <3>1. /\ ReadChain(p)' = events'[<<"READ", p>>] + Occurrences(stalledOnRead, p)
              /\ WriteChain(p)' = events'[<<"WRITE", p>>] + Occurrences(stalledOnWrite, p)
            BY <2>3, ChainsNext
        <3>2. ReadChain(p)' = 0
            BY <1>3, <2>2, <3>1
        <3>3. WriteChain(p)' = WriteChain(p)
            BY <1>7, <2>2, <3>1 DEF WriteChain
        <3> QED
            BY <3>2, <3>3
    <2>5. Migrating' = Migrating /\ migrations' = migrations /\ \A q : CountedReads(q)' = CountedReads(q)
        BY <1>8 DEF Migrating, CountedReads
    <2>6. OthersKept(p) /\ StaysHeld(p, old)
        BY <1>3, <1>6, <2>2, <2>5 DEF OthersKept, StaysHeld
    <2>7. ReadLinked(old, ReadChain(p)')
        BY <1>8, <2>4 DEF ReadLinked
    <2>8. Body(old, CountedReads(p)', fresh'[p], location[p])
        BY <1>2, <1>6, <2>5
    <2>9. WriteLinked(old, WriteChain(p)') /\ CopyLinked(old, events'[<<"COPY", p>>])
        BY <1>2, <1>7, <2>2, <2>4
    <2>10. p \in Migrating' /\ migrations'[p] = old
        BY <1>1, <2>5 DEF old
    <2> QED
        BY <1>2, <1>6, <2>3, <2>6, <2>7, <2>8, <2>9, <2>10, CopyChanges
<1>9. CASE old.leftToRead > 0
    <2>1. old.leftToWrite > 0 /\ from # {} /\ \A m : HeldUpBy(old, m)
        BY <1>2, <1>5, <1>9, ReadersAreHeldUp
    <2>2. b \in from /\ \A c \in from : b <= c
        BY <1>5, <2>1, FirstIs
    <2>3. b \in Blocks /\ old.state[b] = "NOT_READ" /\ \A c \in InState(old, "NOT_READ") : b <= c
        BY <1>5, <2>2 DEF InState
    <2>4. Dec(old.leftToRead) \in Nat
        BY <1>4, DecIs
    <2>5. events[<<"COPY", p>>] = 0
        <3>1. ~IsComplete(old)
            BY <2>1 DEF IsComplete
        <3> QED
            BY <1>2, <3>1 DEF CopyLinked
    <2>6. CASE /\ Take(old.src)
               /\ migrations' = Put(p, f)
               /\ reads' = reads \cup {r}
               /\ TakeEvent(<<"READ", p>>, more)
               /\ UNCHANGED <<stallVars, stalledCallers, registered>>
        <3>1. /\ e.state = [old.state EXCEPT ![b] = "READING"] /\ left \in SUBSET Blocks
              /\ e.leftToRead = Dec(old.leftToRead)
            BY <1>2, <2>3 DEF Entry, InState
        <3>2. left # {} => First(left) \in left /\ \A c \in left : First(left) <= c
            BY <3>1, FirstIs
        <3>3. next \in Blocks
            BY <2>3, <3>1, <3>2
        <3>4. left = {} => next = b
            OBVIOUS
        <3>5. left # {} => next = First(left)
            OBVIOUS
        <3>6. /\ left = InState(e, "NOT_READ") /\ f = [e EXCEPT !.nextRead = next]
              /\ e = [old EXCEPT !.state[b] = "READING", !.leftToRead = Dec(@)]
              /\ migrations' = Put(p, f) /\ reads' = reads \cup {r}
              /\ r = Read(p, b, old.src, FALSE, TRUE)
            BY <2>6
        <3>7. TakeEvent(<<"READ", p>>, IF left # {} THEN {<<"READ", p>>} ELSE {}) /\ (left # {}) \in BOOLEAN
            BY <2>6
        <3> HIDE DEF next, left, e, b, from, r
        <3>8. /\ e \in Entry /\ Same(old, e) /\ e.dirty = old.dirty /\ e.unread = old.unread
              /\ e.leftToWrite = old.leftToWrite /\ e.leftToCompleteRead = old.leftToCompleteRead
              /\ e.nextWrite = old.nextWrite
            BY <1>2, <2>3, <2>4, <3>6 DEF Entry, Same
        <3>9. next \in Nat
            BY <3>3, PageCopyAssumption DEF Blocks
        <3>10. /\ f \in Entry /\ Same(old, f) /\ f.state = e.state /\ f.dirty = old.dirty /\ f.unread = old.unread
               /\ f.leftToRead = e.leftToRead /\ f.leftToCompleteRead = old.leftToCompleteRead
               /\ f.leftToWrite = old.leftToWrite
               /\ f.nextRead = next /\ f.nextWrite = old.nextWrite
            BY <3>6, <3>8, <3>9 DEF Entry, Same
        <3> HIDE DEF f
        <3>11. f.state = [old.state EXCEPT ![b] = "READING"] /\ f.leftToRead = Dec(old.leftToRead)
            BY <3>1, <3>10
        <3>12. r.block = b /\ r.from = old.src /\ r.page = p /\ r.partOfMigration
            BY <3>6 DEF Read
        <3>13. /\ Body(f, CountedReads(p) \cup {r}, fresh[p], location[p])
               /\ f.leftToRead = old.leftToRead - 1
               /\ InState(f, "BUFFERED") = InState(old, "BUFFERED")
            <4>1. Began(old, f, b)
                BY <1>2, <2>3, <3>10, <3>11 DEF Began
            <4> QED
                BY <1>2, <2>3, <3>12, <4>1, BodyReading
        <3>14. left = InState(f, "NOT_READ") /\ (f.leftToRead = 0 <=> left = {})
            <4>1. left = InState(f, "NOT_READ")
                BY <3>6, <3>10 DEF InState
            <4>2. Counts(f, CountedReads(p) \cup {r})
                BY <3>13 DEF Body
            <4>3. f.leftToRead = 0 <=> InState(f, "NOT_READ") = {}
                BY <3>10, <4>2, CountsSay
            <4> QED
                BY <4>1, <4>3
        <3>15. ~(f.src = "pcm" /\ f.leftToRead > setting.threshold)
            BY <1>4, <3>10, <3>13 DEF Same
        <3>16. ReadCursor(f)
            <4>1. \A c \in InState(f, "NOT_READ") : f.nextRead <= c
                BY <3>2, <3>5, <3>10, <3>14
            <4> QED
                BY <3>3, <3>10, <3>15, <4>1 DEF ReadCursor
        <3>17. /\ events'[<<"READ", p>>] = events[<<"READ", p>>] - IF left # {} THEN 0 ELSE 1
               /\ \A j \in Kinds \ {"READ"} : events'[<<j, p>>] = events[<<j, p>>]
               /\ \A j \in Kinds, q \in Pages \ {p} : events'[<<j, q>>] = events[<<j, q>>]
            BY <1>1, <1>2, <1>7, <3>7, TakenFor
        <3>18. UNCHANGED stallVars /\ full \subseteq full' /\ registered \subseteq registered'
            BY <1>2, <1>4, <2>6, MemTypedKept
        <3>19. ReadChain(p)' = (IF left # {} THEN 1 ELSE 0) /\ WriteChain(p)' = WriteChain(p)
            <4>1. /\ ReadChain(p)' = events'[<<"READ", p>>] + Occurrences(stalledOnRead, p)
                  /\ WriteChain(p)' = events'[<<"WRITE", p>>] + Occurrences(stalledOnWrite, p)
                BY <3>18, ChainsNext
            <4>2. ReadChain(p)' = IF left # {} THEN 1 ELSE 0
                BY <1>3, <3>17, <4>1
            <4>3. WriteChain(p)' = WriteChain(p)
                BY <1>7, <3>17, <4>1 DEF WriteChain
            <4> QED
                BY <4>2, <4>3
        <3>20. ReadLinked(f, ReadChain(p)')
            BY <3>14, <3>15, <3>19 DEF ReadLinked
        <3>21. WriteCursor(f) /\ WriteLinked(f, WriteChain(p)')
            BY <1>2, <3>10, <3>13, <3>19, WriteLinksKept
        <3>22. CopyLinked(f, events'[<<"COPY", p>>])
            BY <1>7, <2>5, <3>17 DEF CopyLinked
        <3>23. /\ Migrating' = Migrating \cup {p} /\ migrations'[p] = f
               /\ \A q \in Migrating \ {p} : migrations'[q] = migrations[q]
            BY <1>2, <3>6, <3>10, PutIs
        <3>24. /\ CountedReads(p)' = CountedReads(p) \cup {r}
               /\ \A q \in Pages \ {p} : CountedReads(q)' = CountedReads(q)
            BY <3>6, <3>12 DEF CountedReads
        <3>25. OthersKept(p) /\ StaysHeld(p, f)
            BY <1>3, <1>6, <3>17, <3>23, <3>24 DEF OthersKept, StaysHeld
        <3>26. Body(f, CountedReads(p)', fresh'[p], location[p])
            BY <1>6, <3>13, <3>24
        <3>27. p \in Migrating'
            BY <3>23
        <3> QED
            BY <1>6, <3>10, <3>16, <3>18, <3>20, <3>21, <3>22, <3>23, <3>25, <3>26, <3>27, CopyChanges
    <2>7. CASE /\ ~CopyAccepted(old.src, stalledOnRead)
               /\ IF stalledOnRead = <<>> THEN Stall(old.src) ELSE UNCHANGED memVars
               /\ migrations' = [migrations EXCEPT ![p].nextRead = b]
               /\ stalledOnRead' = Append(stalledOnRead, p)
               /\ TakeEvent(<<"READ", p>>, {})
               /\ UNCHANGED <<reads, stalledOnWrite>>
        <3> DEFINE g == [old EXCEPT !.nextRead = b]
        <3>1. migrations' = [migrations EXCEPT ![p] = g]
            BY <2>7 DEF old
        <3> HIDE DEF b, from
        <3>2. b \in Nat
            BY <2>3, PageCopyAssumption DEF Blocks
        <3>3. /\ g \in Entry /\ Alike(old, g) /\ g.nextRead = b /\ g.nextWrite = old.nextWrite
            BY <1>2, <3>2 DEF Entry, Alike, Same
        <3> HIDE DEF g
        <3>4. /\ Migrating' = Migrating /\ migrations'[p] = g
              /\ \A q \in Migrating \ {p} : migrations'[q] = migrations[q]
            BY <1>1, <1>2, <3>1, <3>3, ChangeIs
        <3>5. Listed("READ", p)
            BY <2>7 DEF Listed
        <3>6. \A q \in Pages : /\ ReadChain(q)' = ReadChain(q) /\ WriteChain(q)' = WriteChain(q)
                               /\ events'[<<"COPY", q>>] = events[<<"COPY", q>>]
            BY <1>1, <1>2, <2>7, <3>5, StalledChains
        <3>7. \A q : CountedReads(q)' = CountedReads(q)
            BY <2>7 DEF CountedReads
        <3>8. \A s : InState(g, s) = InState(old, s)
            BY <3>3, AlikeHeldUp
        <3>9. \A m : HeldUpBy(g, m)
            BY <2>1, <3>3, AlikeHeldUp
        <3>10. Body(g, CountedReads(p), fresh[p], location[p])
            BY <1>2, <3>3, BodySame DEF Alike
        <3>11. ReadCursor(g) /\ ReadLinked(g, ReadChain(p))
            <4>1. g.leftToRead = old.leftToRead /\ g.src = old.src /\ g.rolledBack = old.rolledBack
                BY <3>3 DEF Alike, Same
            <4>2. ReadCursor(g)
                BY <1>4, <2>3, <3>3, <3>8, <4>1 DEF ReadCursor
            <4>3. ReadLinked(g, ReadChain(p))
                BY <1>2, <4>1 DEF ReadLinked
            <4> QED
                BY <4>2, <4>3
        <3>12. WriteCursor(g) /\ WriteLinked(g, WriteChain(p))
            BY <1>2, <3>3, <3>8, WriteLinksKept DEF Alike
        <3>13. CopyLinked(g, events[<<"COPY", p>>])
            BY <2>5 DEF CopyLinked
        <3>14. Agrees(p)'
            <4>1. p \in Migrating' /\ Body(g, CountedReads(p)', fresh'[p], location'[p])
                BY <1>1, <1>6, <3>4, <3>7, <3>10
            <4>2. ReadLinked(g, ReadChain(p)') /\ WriteLinked(g, WriteChain(p)') /\ CopyLinked(g, events'[<<"COPY", p>>])
                BY <3>6, <3>11, <3>12, <3>13
            <4> QED
                BY <1>6, <3>4, <3>11, <3>12, <4>1, <4>2, AgreesNext
        <3>15. \A q \in Pages \ {p} : Undisturbed(q)
            BY <1>6, <3>4, <3>6, <3>7 DEF Undisturbed
        <3>16. \A q \in Pages : Agrees(q)'
            BY <1>6, <3>14, <3>15, Elsewhere DEF IInv
        <3>17. /\ full' = full /\ registered \subseteq registered'
               /\ stalledOnRead = <<>> => \E m \in full : m \in registered'
            <4>1. CASE stalledOnRead = <<>>
                <5>1. Stall(old.src) /\ old.src \in full
                    BY <2>7, <4>1 DEF CopyAccepted
                <5>2. full' = full /\ registered' = registered \cup {old.src}
                    BY <1>2, <1>4, <5>1, MemTypedKept
                <5> QED
                    BY <5>1, <5>2
            <4>2. CASE stalledOnRead # <<>>
                BY <2>7, <4>2 DEF memVars
            <4> QED
                BY <4>1, <4>2
        <3>18. \A m : HeldUpBy(migrations'[p], m)
            BY <3>4, <3>9
        <3>19. StalledWait'
            BY <1>1, <1>3, <2>7, <3>4, <3>17, <3>18, StalledMore
        <3> QED
            BY <3>16, <3>19
    <2>8. ~(old.leftToRead = 0)
        BY <1>9
    <2>9. ~(from = {})
        BY <2>1
    <2> HIDE DEF from, b, e, left, next, f, r, more
    <2> QED
        BY <1>1, <2>6, <2>7, <2>8, <2>9, Zenon
<1> QED
    BY <1>1, <1>4, <1>8, <1>9

\* A memory answers a read.
LEMMA ReadReturnsAgrees ==
    ASSUME IInv, NEW r \in reads, ReadReturns(r)
    PROVE  (\A q \in Pages : Agrees(q)') /\ StalledWait'
<1> DEFINE p == r.page
           b == r.block
           old == migrations[p]
           counted == [old EXCEPT !.leftToCompleteRead = Dec(@)]
           read == [counted EXCEPT !.state[b] = "BUFFERED"]
           g == CallBack(read, b)
           f == WriteOn(g, b)
           h == IF old.state[b] = "WRITTEN" /\ old.rolledBack THEN CallBack(counted, b) ELSE counted
           rest == reads \ {r}
<1>1. /\ UNCHANGED <<notifications, accesses, placeVars, stallVars, memVars>>
      /\ \/ /\ ~r.partOfMigration
            /\ reads' = rest
            /\ UNCHANGED <<migrations, events, fresh>>
         \/ /\ r.partOfMigration /\ p \in Migrating
            /\ old.state[b] = "READING" /\ r.from = old.src
            /\ PutOrComplete(p, f, rest)
            /\ AddEvents(WriteOnEvent(p, old))
            /\ Copied(p, b, r.from, "buffer")
         \/ /\ r.partOfMigration /\ p \in Migrating
            /\ PutOrComplete(p, h, rest)
            /\ UNCHANGED <<events, fresh>>
    BY DEF ReadReturns
<1>2. TypeOK /\ reads \subseteq Reads /\ rest \in SUBSET Reads /\ p \in Pages /\ b \in Blocks
    BY TypesGive DEF IInv, Reads
<1>3. /\ UNCHANGED <<setting, location>> /\ UNCHANGED stallVars
      /\ full \subseteq full' /\ registered \subseteq registered'
    BY <1>1 DEF placeVars, memVars
<1>4. CASE /\ ~r.partOfMigration
           /\ reads' = rest
           /\ UNCHANGED <<migrations, events, fresh>>
    <2>1. \A q \in Pages : CountedReads(q)' = CountedReads(q)
        BY <1>4 DEF CountedReads
    <2>2. UNCHANGED <<setting, location, migrations, events, fresh, stallVars>>
        BY <1>3, <1>4
    <2> QED
        BY <1>3, <2>1, <2>2, NoneConcerned
<1>5. CASE r.partOfMigration /\ p \in Migrating
    <2>1. /\ old \in Entry
          /\ Body(old, CountedReads(p), fresh[p], location[p]) /\ Counts(old, CountedReads(p))
          /\ ReadCursor(old) /\ ReadLinked(old, ReadChain(p))
          /\ WriteCursor(old) /\ WriteLinked(old, WriteChain(p))
          /\ CopyLinked(old, events[<<"COPY", p>>])
        BY <1>5, CopyBefore
    <2>2. /\ Counted(rest, p) = CountedReads(p) \ {r} /\ r \in CountedReads(p)
          /\ \A q \in Pages \ {p} : Counted(rest, q) = CountedReads(q)
        BY <1>5 DEF Counted, CountedReads
    <2>3. events[<<"COPY", p>>] = 0
        <3>1. ~IsComplete(old)
            BY <2>1, <2>2, CountsSay
        <3> QED
            BY <2>1, <3>1 DEF CopyLinked
    <2>4. old.leftToCompleteRead \in Nat /\ Dec(old.leftToCompleteRead) \in Nat
        BY <2>1, DecIs DEF Entry
    <2>5. /\ r.block = b
          /\ counted = [old EXCEPT !.leftToCompleteRead = Dec(@)]
          /\ read = [counted EXCEPT !.state[b] = "BUFFERED"]
          /\ old = migrations[p]
        OBVIOUS
    <2>6. rest = reads \ {r}
        OBVIOUS
    <2> HIDE DEF b, old, counted, read, rest
    <2>7. /\ counted \in Entry /\ Same(old, counted)
          /\ counted.state = old.state /\ counted.dirty = old.dirty /\ counted.unread = old.unread
          /\ counted.leftToRead = old.leftToRead /\ counted.leftToWrite = old.leftToWrite
          /\ counted.leftToCompleteRead = Dec(old.leftToCompleteRead)
          /\ counted.nextRead = old.nextRead /\ counted.nextWrite = old.nextWrite
        BY <2>1, <2>4, <2>5 DEF Entry, Same
    <2>8. ASSUME NEW e \in Entry
          PROVE  /\ CallBack(e, b) \in Entry /\ Alike(e, CallBack(e, b))
                 /\ CallBack(e, b).nextRead = e.nextRead /\ CallBack(e, b).nextWrite = e.nextWrite
        BY DEF CallBack, Entry, Alike, Same
    <2>9. CASE /\ old.state[b] = "READING" /\ r.from = old.src
               /\ PutOrComplete(p, f, rest)
               /\ AddEvents(WriteOnEvent(p, old))
               /\ Copied(p, b, r.from, "buffer")
        <3>1. /\ read \in Entry /\ Same(old, read)
              /\ read.state = [old.state EXCEPT ![b] = "BUFFERED"]
              /\ read.dirty = old.dirty /\ read.unread = old.unread
              /\ read.leftToRead = old.leftToRead /\ read.leftToWrite = old.leftToWrite
              /\ read.leftToCompleteRead = Dec(old.leftToCompleteRead)
              /\ read.nextRead = old.nextRead /\ read.nextWrite = old.nextWrite
            <4>1. /\ read \in Entry /\ Same(counted, read)
                  /\ read.state = [counted.state EXCEPT ![b] = "BUFFERED"]
                  /\ read.dirty = counted.dirty /\ read.unread = counted.unread
                  /\ read.leftToRead = counted.leftToRead /\ read.leftToWrite = counted.leftToWrite
                  /\ read.leftToCompleteRead = counted.leftToCompleteRead
                  /\ read.nextRead = counted.nextRead /\ read.nextWrite = counted.nextWrite
                <5>1. counted \in Entry
                    BY <2>7
                <5> HIDE DEF counted
                <5> QED
                    <6>1. read = [counted EXCEPT !.state[b] = "BUFFERED"] /\ b \in Blocks
                        BY <1>2, <2>5
                    <6>2. read \in Entry
                        BY <5>1, <6>1 DEF Entry
                    <6> QED
                        BY <5>1, <6>1, <6>2 DEF Entry, Same
            <4> QED
                BY <2>7, <4>1 DEF Same
        <3>2. /\ g \in Entry /\ Alike(read, g) /\ g.nextRead = old.nextRead /\ g.nextWrite = old.nextWrite
            BY <2>8, <3>1
        <3>3. f \in Entry /\ Alike(g, f) /\ f.nextRead = g.nextRead
            BY <1>2, <3>2, StartingKeeps
        <3>4. f = WriteOn(g, b) /\ PutOrComplete(p, f, rest)
            BY <2>9
        <3> HIDE DEF g, f
        <3>5. /\ fresh'[p] = [fresh[p] EXCEPT ![b] = IF old.src \in @ THEN @ \cup {"buffer"} ELSE @ \ {"buffer"}]
              /\ \A q \in Pages \ {p} : fresh'[q] = fresh[q]
            <4>1. old.src \in Mems
                BY <2>1 DEF Entry
            <4> QED
                BY <1>2, <2>9, <4>1, CopiedIs
        <3>6. Rehoused(fresh[p], fresh'[p], b, HeldToo(fresh[p][b], old.src, "buffer"))
            BY <1>2, <3>5 DEF Rehoused, HeldToo, TypeOK
        <3>7. /\ Body(read, CountedReads(p) \ {r}, fresh'[p], location[p]) /\ old.leftToWrite > 0
              /\ InState(read, "NOT_READ") = InState(old, "NOT_READ")
              /\ InState(read, "BUFFERED") = InState(old, "BUFFERED") \cup {b}
            <4>1. old.state[b] = "READING" /\ r \in CountedReads(p) /\ r.block = b
                BY <2>2, <2>5, <2>9
            <4>2. Arrived(old, read, b, fresh[p], fresh'[p])
                BY <3>1, <3>6, <4>1 DEF Arrived
            <4>3. Body(read, CountedReads(p) \ {r}, fresh'[p], location[p])
                BY <1>2, <2>1, <3>1, <4>1, <4>2, BodyArrived
            <4>4. old.leftToWrite > 0
                BY <1>2, <2>1, <4>1, CountsSay
            <4>5. /\ InState(read, "NOT_READ") = InState(old, "NOT_READ")
                  /\ InState(read, "BUFFERED") = InState(old, "BUFFERED") \cup {b}
                BY <1>2, <2>1, <3>1, <4>1, Moves
            <4> QED
                BY <4>3, <4>4, <4>5
        <3>8. Body(g, CountedReads(p) \ {r}, fresh'[p], location[p]) /\ \A s : InState(g, s) = InState(read, s)
            BY <3>1, <3>2, <3>7, BodySame DEF Alike
        <3>9. Body(f, CountedReads(p) \ {r}, fresh'[p], location[p]) /\ \A s : InState(f, s) = InState(g, s)
            BY <3>2, <3>3, <3>8, BodySame DEF Alike
        <3>10. /\ events'[<<"COPY", p>>] = events[<<"COPY", p>>]
               /\ \A k \in Kinds, q \in Pages \ {p} : events'[<<k, q>>] = events[<<k, q>>]
               /\ ReadChain(p)' = ReadChain(p) + IF FALSE THEN 1 ELSE 0
               /\ WriteChain(p)' = WriteChain(p) + IF old.nextWrite = -1 THEN 1 ELSE 0
            <4> DEFINE wr == old.nextWrite = -1
                       new == WriteOnEvent(p, old)
            <4>1. \A k \in Kinds, q \in Pages :
                      <<k, q>> \in new <=> q = p /\ ((k = "READ" /\ FALSE) \/ (k = "WRITE" /\ wr))
                BY StartedEvents
            <4>2. wr \in BOOLEAN /\ AddEvents(new)
                BY <2>9
            <4> HIDE DEF wr, new
            <4>3. /\ events'[<<"COPY", p>>] = events[<<"COPY", p>>]
                  /\ \A k \in Kinds, q \in Pages \ {p} : events'[<<k, q>>] = events[<<k, q>>]
                  /\ ReadChain(p)' = ReadChain(p) + IF FALSE THEN 1 ELSE 0
                  /\ WriteChain(p)' = WriteChain(p) + IF wr THEN 1 ELSE 0
                BY <1>2, <1>3, <4>1, <4>2, AddedFor
            <4> QED
                BY <4>3 DEF wr
        <3>11. ReadChain(p)' = ReadChain(p)
            BY <2>1, <3>10 DEF ReadLinked
        <3>12. ReadCursor(f) /\ ReadLinked(f, ReadChain(p)')
            <4>1. Same(old, f) /\ f.nextRead = old.nextRead /\ f.leftToRead = old.leftToRead
                BY <3>1, <3>2, <3>3 DEF Alike, Same
            <4>2. InState(f, "NOT_READ") = InState(old, "NOT_READ")
                BY <3>7, <3>8, <3>9
            <4> QED
                BY <2>1, <3>3, <3>11, <4>1, <4>2, ReadLinksKept
        <3>13. WriteCursor(f) /\ WriteLinked(f, WriteChain(p)')
            <4>1. InState(g, "BUFFERED") = InState(old, "BUFFERED") \cup {b}
                BY <3>7, <3>8
            <4> QED
                BY <1>2, <2>1, <3>2, <3>4, <3>7, <3>10, <4>1, WriteOnLinks
        <3>14. events'[<<"COPY", p>>] = 0 /\ CopyLinked(f, events'[<<"COPY", p>>])
            BY <2>3, <3>10 DEF CopyLinked
        <3>15. StaysHeld(p, f)
            <4>1. /\ f.src = old.src /\ f.dest = old.dest /\ f.unread = old.unread
                  /\ f.leftToRead = old.leftToRead /\ f.leftToWrite = old.leftToWrite
                BY <3>1, <3>2, <3>3 DEF Alike, Same
            <4> QED
                BY <2>5, <4>1 DEF StaysHeld, HeldUpBy
        <3>16. Body(f, Counted(rest, p), fresh'[p], location[p])
            BY <2>2, <3>9
        <3> QED
            BY <1>2, <1>3, <1>5, <2>2, <3>3, <3>4, <3>5, <3>10, <3>12, <3>13, <3>14, <3>15, <3>16, PutBackAgrees
    <2>10. CASE /\ PutOrComplete(p, h, rest)
                /\ UNCHANGED <<events, fresh>>
        <3>1. /\ h \in Entry /\ Alike(counted, h)
              /\ h.nextRead = old.nextRead /\ h.nextWrite = old.nextWrite
            <4>1. CASE old.state[b] = "WRITTEN" /\ old.rolledBack
                BY <2>7, <2>8, <4>1
            <4>2. CASE ~(old.state[b] = "WRITTEN" /\ old.rolledBack)
                BY <2>7, <4>2 DEF Alike, Same
            <4> QED
                BY <4>1, <4>2
        <3> HIDE DEF h
        <3>2. /\ Same(old, h) /\ h.state = old.state /\ h.dirty = old.dirty /\ h.unread = old.unread
              /\ h.leftToRead = old.leftToRead /\ h.leftToWrite = old.leftToWrite
              /\ h.leftToCompleteRead = Dec(old.leftToCompleteRead)
            BY <2>7, <3>1 DEF Alike, Same
        <3>3. Body(h, CountedReads(p) \ {r}, fresh[p], location[p]) /\ \A s : InState(h, s) = InState(old, s)
            BY <2>1, <2>2, <3>1, <3>2, BodyLate
        <3>4. ReadChain(p)' = ReadChain(p) /\ WriteChain(p)' = WriteChain(p)
            BY <1>3, <2>10, ChainsNext DEF ReadChain, WriteChain
        <3>5. ReadCursor(h) /\ ReadLinked(h, ReadChain(p)')
            BY <2>1, <3>1, <3>2, <3>3, <3>4, ReadLinksKept
        <3>6. WriteCursor(h) /\ WriteLinked(h, WriteChain(p)')
            BY <2>1, <3>1, <3>2, <3>3, <3>4, WriteLinksKept
        <3>7. events'[<<"COPY", p>>] = 0 /\ CopyLinked(h, events'[<<"COPY", p>>])
            BY <2>3, <2>10 DEF CopyLinked
        <3>8. StaysHeld(p, h)
            BY <2>5, <3>2 DEF StaysHeld, HeldUpBy, Same
        <3>9. Body(h, Counted(rest, p), fresh'[p], location[p])
            BY <2>2, <2>10, <3>3
        <3>10. /\ \A q \in Pages \ {p} : fresh'[q] = fresh[q]
               /\ \A k \in Kinds, q \in Pages \ {p} : events'[<<k, q>>] = events[<<k, q>>]
            BY <2>10
        <3>11. PutOrComplete(p, h, rest)
            BY <2>10
        <3> QED
            BY <1>2, <1>3, <1>5, <2>2, <3>1, <3>5, <3>6, <3>7, <3>8, <3>9, <3>10, <3>11, PutBackAgrees
    <2>11. \/ ~r.partOfMigration
           \/ /\ old.state[b] = "READING" /\ r.from = old.src
              /\ PutOrComplete(p, f, rest)
              /\ AddEvents(WriteOnEvent(p, old))
              /\ Copied(p, b, r.from, "buffer")
           \/ /\ PutOrComplete(p, h, rest)
              /\ UNCHANGED <<events, fresh>>
        <3> HIDE DEF f, h
        <3> QED
            BY <1>1, Zenon
    <2> QED
        BY <1>5, <2>9, <2>10, <2>11
<1> HIDE DEF p, b, old, counted, read, g, f, h, rest
<1> QED
    BY <1>1, <1>4, <1>5, Zenon

\* The reads of the buffer are answered.
LEMMA NotifyAgrees ==
    ASSUME IInv, Notify
    PROVE  (\A q \in Pages : Agrees(q)') /\ StalledWait'
<1>1. /\ UNCHANGED <<setting, location, migrations, events, fresh, stallVars>>
      /\ full \subseteq full' /\ registered \subseteq registered'
    BY DEF Notify, placeVars, memVars
<1>2. \A q \in Pages : CountedReads(q)' = CountedReads(q)
    BY DEF Notify, CountedReads
<1> QED
    BY <1>1, <1>2, NoneConcerned

\* The chains of a page after unstall: no more of them than before.
LEMMA ChainsDrained ==
    ASSUME TypeOK, NEW m \in Mems, MemoryDrains(m), m \in registered, NEW q \in Pages
    PROVE  /\ ReadChain(q)' = events[<<"READ", q>>] + Retried("READ", q, m)
           /\ WriteChain(q)' = events[<<"WRITE", q>>] + Retried("WRITE", q, m)
           /\ events'[<<"COPY", q>>] = events[<<"COPY", q>>]
           /\ Retried("READ", q, m) \in {0, Occurrences(stalledOnRead, q)}
           /\ Retried("WRITE", q, m) \in {0, Occurrences(stalledOnWrite, q)}
<1>1. /\ events[<<"READ", q>>] \in Nat /\ events[<<"WRITE", q>>] \in Nat /\ events[<<"COPY", q>>] \in Nat
      /\ Occurrences(stalledOnRead, q) \in Nat /\ Occurrences(stalledOnWrite, q) \in Nat
      /\ "READ" \in Kinds /\ "WRITE" \in Kinds /\ "COPY" \in Kinds
    BY ChainsAre
<1>2. \A k \in Kinds : events'[<<k, q>>] = events[<<k, q>>] + Retried(k, q, m)
    BY MemoryDrainsIs
<1>3. stalledOnRead' = <<>> /\ stalledOnWrite' = <<>>
    BY DEF MemoryDrains
<1>4. Occurrences(stalledOnRead, q)' = 0 /\ Occurrences(stalledOnWrite, q)' = 0
    BY <1>3, OccurrencesEmpty DEF Occurrences
<1>5. /\ Retried("READ", q, m) \in {0, Occurrences(stalledOnRead, q)}
      /\ Retried("WRITE", q, m) \in {0, Occurrences(stalledOnWrite, q)}
      /\ Retried("COPY", q, m) = 0
    BY DEF Retried
<1>6. events'[<<"READ", q>>] \in Nat /\ events'[<<"WRITE", q>>] \in Nat
    BY <1>1, <1>2, <1>5
<1>7. ReadChain(q)' = events'[<<"READ", q>>] /\ WriteChain(q)' = events'[<<"WRITE", q>>]
    BY <1>4, <1>6 DEF ReadChain, WriteChain
<1>8. events'[<<"COPY", q>>] = events[<<"COPY", q>>]
    BY <1>1, <1>2, <1>5
<1> QED
    BY <1>1, <1>2, <1>5, <1>7, <1>8

\* With OneQueue all that wait, wait for the memory that calls.
LEMMA NoneDropped ==
    ASSUME IInv, OneQueue, NEW m \in Mems, MemoryDrains(m), NEW q \in Pages
    PROVE  /\ Retried("READ", q, m) = Occurrences(stalledOnRead, q)
           /\ Retried("WRITE", q, m) = Occurrences(stalledOnWrite, q)
<1>1. /\ TypeOK /\ StalledForOne /\ m \in full /\ full \subseteq MayFill
      /\ stalledOnRead \in Seq(Pages) /\ stalledOnWrite \in Seq(Pages)
    BY DEF IInv, TypeOK, MemoryDrains
<1>2. \A n \in full : n = m
    BY <1>1 DEF OneQueue
<1>3. Contains(stalledOnRead, q) => migrations[q].src = m
    BY <1>1, <1>2, OccurrencesNone DEF StalledForOne, ReadersForOne, WritersForOne
<1>4. Contains(stalledOnWrite, q) => migrations[q].dest = m
    BY <1>1, <1>2, OccurrencesNone DEF StalledForOne, ReadersForOne, WritersForOne
<1>5. /\ ~Contains(stalledOnRead, q) => Occurrences(stalledOnRead, q) = 0
      /\ ~Contains(stalledOnWrite, q) => Occurrences(stalledOnWrite, q) = 0
    BY <1>1, OccurrencesNone
<1> QED
    BY <1>3, <1>4, <1>5 DEF Retried

\* A memory has room, and calls those that wait for it.
LEMMA MemoryDrainsAgrees ==
    ASSUME IInv, NEW m \in Mems, MemoryDrains(m)
    PROVE  (\A q \in Pages : Agrees(q)') /\ StalledWait'
<1>1. /\ TypeOK
      /\ full' = full \ {m}
      /\ UNCHANGED <<migrations, reads, fresh, setting, location>>
      /\ Migrating' = Migrating /\ \A q : CountedReads(q)' = CountedReads(q)
    BY DEF MemoryDrains, placeVars, IInv, CountedReads, Migrating
<1>2. CASE m \notin registered
    <2>1. UNCHANGED <<events, stallVars>> /\ registered' = registered
        BY <1>2 DEF MemoryDrains
    <2>2. \A q \in Pages : Undisturbed(q)
        BY <1>1, <2>1, UndisturbedBy
    <2>3. \A q \in Pages : Agrees(q)'
        BY <1>1, <2>2, Elsewhere DEF IInv
    <2>4. StalledWait'
        <3>1. UNCHANGED stalledOnRead /\ full' \cap registered' = full \cap registered
            BY <1>1, <1>2, <2>1 DEF stallVars
        <3> QED
            BY <1>1, <3>1 DEF IInv, StalledWait, HeldUpBy
    <2> QED
        BY <2>3, <2>4
<1>3. CASE m \in registered
    <2>1. stalledOnRead' = <<>>
        BY <1>3 DEF MemoryDrains
    <2>2. StalledWait'
        BY <2>1 DEF StalledWait
    <2>3. ASSUME NEW q \in Pages PROVE Agrees(q)'
        <3>1. /\ ReadChain(q)' = events[<<"READ", q>>] + Retried("READ", q, m)
              /\ WriteChain(q)' = events[<<"WRITE", q>>] + Retried("WRITE", q, m)
              /\ events'[<<"COPY", q>>] = events[<<"COPY", q>>]
              /\ Retried("READ", q, m) \in {0, Occurrences(stalledOnRead, q)}
              /\ Retried("WRITE", q, m) \in {0, Occurrences(stalledOnWrite, q)}
            BY <1>1, <1>3, ChainsDrained
        <3>2. /\ events[<<"READ", q>>] \in Nat /\ events[<<"WRITE", q>>] \in Nat
              /\ Occurrences(stalledOnRead, q) \in Nat /\ Occurrences(stalledOnWrite, q) \in Nat
            BY <1>1, ChainsAre
        <3>7. /\ ReadChain(q) = events[<<"READ", q>>] + Occurrences(stalledOnRead, q)
              /\ WriteChain(q) = events[<<"WRITE", q>>] + Occurrences(stalledOnWrite, q)
            BY DEF ReadChain, WriteChain
        <3>3. /\ ReadChain(q) \in {0, 1} => ReadChain(q)' \in {0, ReadChain(q)}
              /\ WriteChain(q) \in {0, 1} => WriteChain(q)' \in {0, WriteChain(q)}
            <4>1. ReadChain(q) \in {0, 1} => ReadChain(q)' \in {0, ReadChain(q)}
                BY <3>1, <3>2, <3>7
            <4>2. WriteChain(q) \in {0, 1} => WriteChain(q)' \in {0, WriteChain(q)}
                BY <3>1, <3>2, <3>7
            <4> QED
                BY <4>1, <4>2
        <3>6. OneQueue => ReadChain(q)' = ReadChain(q) /\ WriteChain(q)' = WriteChain(q)
            <4> SUFFICES ASSUME OneQueue
                         PROVE  ReadChain(q)' = ReadChain(q) /\ WriteChain(q)' = WriteChain(q)
                OBVIOUS
            <4>1. /\ Retried("READ", q, m) = Occurrences(stalledOnRead, q)
                  /\ Retried("WRITE", q, m) = Occurrences(stalledOnWrite, q)
                BY <1>3, NoneDropped
            <4> QED
                BY <3>1, <3>7, <4>1
        <3>4. CASE q \in Migrating
            <4> DEFINE e == migrations[q]
            <4>1. /\ e \in Entry
                  /\ Body(e, CountedReads(q), fresh[q], location[q])
                  /\ ReadCursor(e) /\ ReadLinked(e, ReadChain(q))
                  /\ WriteCursor(e) /\ WriteLinked(e, WriteChain(q))
                  /\ CopyLinked(e, events[<<"COPY", q>>])
                BY <3>4, CopyBefore
            <4>2. migrations'[q] = e /\ q \in Migrating'
                BY <1>1, <3>4
            <4> HIDE DEF e
            <4>3. ReadChain(q)' \in {0, ReadChain(q)} /\ WriteChain(q)' \in {0, WriteChain(q)}
                BY <3>3, <4>1 DEF ReadLinked, WriteLinked
            <4>4. ReadLinked(e, ReadChain(q)')
                BY <3>6, <4>1, <4>3 DEF ReadLinked
            <4>5. WriteLinked(e, WriteChain(q)')
                BY <3>6, <4>1, <4>3 DEF WriteLinked
            <4>6. CopyLinked(e, events'[<<"COPY", q>>])
                BY <3>1, <4>1
            <4>7. Body(e, CountedReads(q)', fresh'[q], location'[q])
                BY <1>1, <4>1
            <4> QED
                BY <1>1, <4>1, <4>2, <4>4, <4>5, <4>6, <4>7, AgreesNext
        <3>5. CASE q \notin Migrating
            <4>1. Resting(q)
                BY <3>5 DEF IInv, Agrees
            <4>2. ReadChain(q)' = 0 /\ WriteChain(q)' = 0
                BY <3>3, <4>1 DEF Resting
            <4> QED
                BY <1>1, <3>1, <3>5, <4>1, <4>2 DEF Agrees, Resting
        <3> QED
            BY <3>4, <3>5
    <2> QED
        BY <2>2, <2>3
<1> QED
    BY <1>2, <1>3


-----------------------------------------------------------------------------
(* Those that wait for the memory they need *)

\* Every copy agrees.
AllAgree == \A p \in Pages : Agrees(p)

\* A copy that is listed goes on between the same memories.
SidesKept == \A q \in Migrating :
    /\ q \in Migrating'
    /\ Contains(stalledOnRead, q) \/ Contains(stalledOnWrite, q)
    => migrations'[q].src = migrations[q].src /\ migrations'[q].dest = migrations[q].dest

\* The memories are as full as before, and the lists as long.
KeepWaiting == full \subseteq full' /\ registered \subseteq registered' /\ SidesKept
WaitOn == UNCHANGED stallVars /\ KeepWaiting

\* What is in a list is in it somewhere, and occurs.
LEMMA ListedOccurs ==
    ASSUME NEW s \in Seq(Pages), NEW i \in DOMAIN s
    PROVE  s[i] \in Pages /\ Contains(s, s[i]) /\ Occurrences(s, s[i]) # 0
<1>1. s[i] \in Pages
    BY ElementOfSeq, LenProperties
<1> QED
    BY <1>1, OccurrencesNone

\* Where nothing is done to a list, those in it keep waiting.
LEMMA StaysForOne ==
    ASSUME TypeOK, TypeOK', StalledForOne, AllAgree', KeepWaiting
    PROVE  /\ UNCHANGED stalledOnRead => ReadersForOne'
           /\ UNCHANGED stalledOnWrite => WritersForOne'
<1>1. /\ stalledOnRead \in Seq(Pages) /\ stalledOnWrite \in Seq(Pages)
      /\ stalledOnRead' \in Seq(Pages) /\ stalledOnWrite' \in Seq(Pages)
    BY DEF TypeOK
<1>2. ASSUME NEW q \in Pages,
             Occurrences(stalledOnRead', q) # 0 \/ Occurrences(stalledOnWrite', q) # 0
      PROVE  q \in Migrating'
    <2>1. /\ events'[<<"READ", q>>] \in Nat /\ events'[<<"WRITE", q>>] \in Nat
          /\ Occurrences(stalledOnRead', q) \in Nat /\ Occurrences(stalledOnWrite', q) \in Nat
        BY <1>1, OccurrencesFinite DEF TypeOK, Kinds
    <2>2. ReadChain(q)' # 0 \/ WriteChain(q)' # 0
        BY <1>2, <2>1 DEF ReadChain, WriteChain, Occurrences
    <2> QED
        BY <2>2 DEF AllAgree, Agrees, Resting
<1>3. ASSUME UNCHANGED stalledOnRead, NEW i \in DOMAIN stalledOnRead
      PROVE  /\ stalledOnRead[i] \in Migrating'
             /\ migrations'[stalledOnRead[i]].src \in full' \cap registered'
    <2> DEFINE q == stalledOnRead[i]
    <2>1. /\ q \in Pages /\ Contains(stalledOnRead, q) /\ Occurrences(stalledOnRead, q) # 0
          /\ q \in Migrating /\ migrations[q].src \in full \cap registered
        BY <1>1, <1>3, ListedOccurs DEF StalledForOne, ReadersForOne
    <2> HIDE DEF q
    <2>2. q \in Migrating'
        BY <1>2, <1>3, <2>1
    <2>3. migrations'[q].src \in full' \cap registered'
        BY <2>1, <2>2 DEF KeepWaiting, SidesKept
    <2> QED
        BY <2>2, <2>3 DEF q
<1>4. ASSUME UNCHANGED stalledOnWrite, NEW i \in DOMAIN stalledOnWrite
      PROVE  /\ stalledOnWrite[i] \in Migrating'
             /\ migrations'[stalledOnWrite[i]].dest \in full' \cap registered'
    <2> DEFINE q == stalledOnWrite[i]
    <2>1. /\ q \in Pages /\ Contains(stalledOnWrite, q) /\ Occurrences(stalledOnWrite, q) # 0
          /\ q \in Migrating /\ migrations[q].dest \in full \cap registered
        BY <1>1, <1>4, ListedOccurs DEF StalledForOne, WritersForOne
    <2> HIDE DEF q
    <2>2. q \in Migrating'
        BY <1>2, <1>4, <2>1
    <2>3. migrations'[q].dest \in full' \cap registered'
        BY <2>1, <2>2 DEF KeepWaiting, SidesKept
    <2> QED
        BY <2>2, <2>3 DEF q
<1> QED
    BY <1>3, <1>4 DEF ReadersForOne, WritersForOne

\* So with both lists.
LEMMA WaitsOn ==
    ASSUME TypeOK, TypeOK', StalledForOne, AllAgree', WaitOn
    PROVE  StalledForOne'
    BY StaysForOne DEF WaitOn, stallVars, StalledForOne

\* A copy gets an entry between the same memories, or is not listed.
LEMMA EntrySides ==
    ASSUME TypeOK, NEW p \in Pages, NEW e \in Entry,
           migrations' = Put(p, e) \/ (p \in Migrating /\ migrations' = [migrations EXCEPT ![p] = e]),
           p \in Migrating /\ (Contains(stalledOnRead, p) \/ Contains(stalledOnWrite, p)) =>
               e.src = migrations[p].src /\ e.dest = migrations[p].dest
    PROVE  SidesKept
<1>1. TableTyped
    BY TypesGive
<1>2. migrations'[p] = e /\ \A q \in Migrating \ {p} : migrations'[q] = migrations[q]
    BY <1>1, PutIs, ChangeIs
<1> QED
    BY <1>2 DEF SidesKept

\* An entry that is the same in that.
LEMMA PutSides ==
    ASSUME TypeOK, NEW p \in Pages, NEW e \in Entry,
           migrations' = Put(p, e) \/ (p \in Migrating /\ migrations' = [migrations EXCEPT ![p] = e]),
           p \in Migrating => Same(migrations[p], e)
    PROVE  SidesKept
    BY EntrySides DEF Same

\* An entry is put back, or the copy is complete.
LEMMA PutBackSides ==
    ASSUME TypeOK, NEW p \in Migrating, NEW e \in Entry, Same(migrations[p], e), NEW rest,
           PutOrComplete(p, e, rest) \/ Complete(p, e, rest)
    PROVE  SidesKept
<1>1. TableTyped /\ p \in Pages
    BY TypesGive DEF TableTyped
<1>2. CASE migrations' = Put(p, e)
    BY <1>1, <1>2, PutSides
<1>3. CASE migrations' = Put(p, [e EXCEPT !.copied = TRUE])
    <2> DEFINE f == [e EXCEPT !.copied = TRUE]
    <2>1. f \in Entry /\ f.src = migrations[p].src /\ f.dest = migrations[p].dest
        BY DEF Entry, Same
    <2> QED
        BY <1>1, <1>3, <2>1, EntrySides
<1>4. CASE migrations' = Without(p)
    BY <1>1, <1>4, WithoutIs DEF SidesKept
<1> QED
    BY <1>2, <1>3, <1>4 DEF PutOrComplete, Complete

\* Requests of caches.
LEMMA AccessWaitsOn ==
    ASSUME TypeOK, NEW p \in Pages, NEW b \in Blocks, Access(p, b)
    PROVE  WaitOn
<1>1. TableTyped /\ location[p] \in Mems /\ "pcm" \in Mems /\ "dram" \in Mems
    BY TypesGive DEF Mems
<1>2. ASSUME NEW m \in Mems
      PROVE  /\ Refuse(m) => UNCHANGED stallVars /\ full \subseteq full' /\ registered \subseteq registered'
             /\ Take(m) /\ UNCHANGED <<stallVars, stalledCallers, registered>> =>
                    UNCHANGED stallVars /\ full \subseteq full' /\ registered \subseteq registered'
    BY <1>2, MemTypedKept DEF Refuse
<1>3. UNCHANGED memVars => full \subseteq full' /\ registered \subseteq registered'
    BY DEF memVars
<1>4. UNCHANGED migrations => SidesKept
    BY DEF SidesKept
<1>5. ASSUME NEW m \in Mems, PassRead(p, b, m) PROVE WaitOn
    BY <1>2, <1>4, <1>5 DEF PassRead, WaitOn, KeepWaiting
<1>6. ASSUME p \in Migrating,
             ReadUnread(p, b) \/ ReadJoins(p, b) \/ ReadBuffered(p, b) \/ ReadWritten(p, b)
      PROVE  WaitOn
    <2> DEFINE old == migrations[p]
    <2>1. old \in Entry /\ old.dest \in Mems /\ old.leftToRead \in Nat
        BY <1>1, <1>6 DEF TableTyped, Entry
    <2>2. CASE ReadUnread(p, b)
        <3> DEFINE e == BeginRead(old, b)
        <3>1. e \in Entry /\ Same(old, e)
            BY <2>1, DecIs DEF BeginRead, Entry, Same
        <3>2. ReadOn(e) \in Entry /\ Same(old, ReadOn(e))
            BY <3>1, StartingKeeps DEF Alike, Same
        <3>3. CASE Refuse(location[p]) /\ UNCHANGED migrations
            BY <1>1, <1>2, <1>4, <3>3 DEF WaitOn, KeepWaiting
        <3>4. CASE /\ Take(location[p])
                   /\ migrations' = Put(p, ReadOn(e))
                   /\ UNCHANGED <<notifications, fresh, placeVars, stallVars, stalledCallers, registered>>
            <4>1. SidesKept
                BY <3>2, <3>4, PutSides
            <4> QED
                BY <1>1, <1>2, <3>4, <4>1 DEF WaitOn, KeepWaiting
        <3> QED
            BY <2>2, <3>3, <3>4 DEF ReadUnread, BeginRead
    <2>3. CASE ReadJoins(p, b)
        <3> DEFINE e == [old EXCEPT !.callers = @ \cup {b}]
        <3>1. e \in Entry /\ Same(old, e) /\ migrations' = [migrations EXCEPT ![p] = e]
            BY <2>1, <2>3 DEF Entry, ReadJoins, Same
        <3>2. SidesKept
            BY <1>6, <3>1, PutSides
        <3> QED
            BY <1>3, <2>3, <3>2 DEF ReadJoins, WaitOn, KeepWaiting
    <2>4. CASE ReadBuffered(p, b)
        BY <1>3, <1>4, <2>4 DEF ReadBuffered, WaitOn, KeepWaiting
    <2>5. CASE ReadWritten(p, b)
        BY <1>5, <2>1, <2>5 DEF ReadWritten
    <2> QED
        BY <1>6, <2>2, <2>3, <2>4, <2>5
<1>7. ASSUME p \in Migrating,
             WriteUnread(p, b) \/ WriteOvertakes(p, b) \/ WriteBuffered(p, b) \/ WriteWritten(p, b)
      PROVE  WaitOn
    <2> DEFINE old == migrations[p]
               dirtied == [old EXCEPT !.dirty[b] = TRUE]
    <2>1. old \in Entry /\ old.dest \in Mems /\ old.leftToRead \in Nat
        BY <1>1, <1>7 DEF TableTyped, Entry
    <2>2. dirtied \in Entry /\ Same(old, dirtied)
        BY <2>1 DEF Entry, Same
    <2>3. CASE WriteUnread(p, b)
        <3> DEFINE e == BufferUnread(old, b)
        <3>1. e \in Entry /\ Same(old, e)
            BY <2>1, DecIs DEF BufferUnread, Entry, Same
        <3>2. ReadOn(e) \in Entry /\ Same(old, ReadOn(e))
            BY <3>1, StartingKeeps DEF Alike, Same
        <3>3. WriteOn(ReadOn(e), b) \in Entry /\ Same(old, WriteOn(ReadOn(e), b))
            BY <3>2, StartingKeeps DEF Alike, Same
        <3>4. migrations' = Put(p, WriteOn(ReadOn(e), b)) /\ UNCHANGED <<stallVars, memVars>>
            BY <2>3 DEF WriteUnread, BufferUnread
        <3>5. SidesKept
            BY <3>3, <3>4, PutSides
        <3> QED
            BY <1>3, <3>4, <3>5 DEF WaitOn, KeepWaiting
    <2>4. CASE WriteOvertakes(p, b)
        <3> DEFINE e == [old EXCEPT !.state[b] = "BUFFERED", !.dirty[b] = TRUE,
                                    !.joined = @ \cup (old.callers \cap {b})]
        <3>1. e \in Entry /\ Same(old, e)
            BY <2>1 DEF Entry, Same
        <3>2. WriteOn(e, b) \in Entry /\ Same(old, WriteOn(e, b))
            BY <3>1, StartingKeeps DEF Alike, Same
        <3>3. migrations' = Put(p, WriteOn(e, b)) /\ UNCHANGED <<stallVars, memVars>>
            BY <2>4 DEF WriteOvertakes
        <3>4. SidesKept
            BY <3>2, <3>3, PutSides
        <3> QED
            BY <1>3, <3>3, <3>4 DEF WaitOn, KeepWaiting
    <2>5. CASE WriteBuffered(p, b)
        <3>1. migrations' = [migrations EXCEPT ![p] = dirtied] /\ UNCHANGED <<stallVars, memVars>>
            BY <2>5 DEF WriteBuffered
        <3>2. SidesKept
            BY <1>7, <2>2, <3>1, PutSides
        <3> QED
            BY <1>3, <3>1, <3>2 DEF WaitOn, KeepWaiting
    <2>6. CASE WriteWritten(p, b)
        <3>1. CASE Refuse(old.dest) /\ UNCHANGED migrations
            BY <1>2, <1>4, <2>1, <3>1 DEF WaitOn, KeepWaiting
        <3>2. CASE /\ Take(old.dest)
                   /\ migrations' = [migrations EXCEPT ![p].dirty[b] = TRUE]
                   /\ UNCHANGED <<stallVars, stalledCallers, registered>>
            <4>1. migrations' = [migrations EXCEPT ![p] = dirtied]
                BY <3>2
            <4>2. SidesKept
                BY <1>7, <2>2, <4>1, PutSides
            <4> QED
                BY <1>2, <2>1, <3>2, <4>2 DEF WaitOn, KeepWaiting
        <3> QED
            BY <2>6, <3>1, <3>2 DEF WriteWritten
    <2> QED
        BY <1>7, <2>3, <2>4, <2>5, <2>6
<1>8. ASSUME p \notin Migrating,
             ReadResident(p, b) \/ ReadOnDemand(p, b) \/ WriteResident(p, b) \/ WriteOnDemand(p, b)
      PROVE  WaitOn
    <2> DEFINE new == NewEntry("pcm", "dram")
    <2>1. new \in Entry /\ new.leftToRead \in Nat
        BY <1>1, NewEntryTyped DEF Entry
    <2>2. CASE ReadResident(p, b)
        BY <1>1, <1>5, <2>2 DEF ReadResident
    <2>3. CASE ReadOnDemand(p, b)
        <3> DEFINE e == BeginRead(new, b)
        <3>1. ReadOn(e) \in Entry
            <4>1. e \in Entry
                BY <2>1, DecIs DEF BeginRead, Entry
            <4> QED
                BY <4>1, StartingKeeps
        <3>2. CASE Refuse("pcm") /\ migrations' = Put(p, new)
            <4>1. SidesKept
                BY <1>8, <2>1, <3>2, PutSides
            <4> QED
                BY <1>1, <1>2, <3>2, <4>1 DEF WaitOn, KeepWaiting
        <3>3. CASE /\ Take("pcm")
                   /\ migrations' = Put(p, ReadOn(e))
                   /\ UNCHANGED <<notifications, fresh, placeVars, stallVars, stalledCallers, registered>>
            <4>1. SidesKept
                BY <1>8, <3>1, <3>3, PutSides
            <4> QED
                BY <1>1, <1>2, <3>3, <4>1 DEF WaitOn, KeepWaiting
        <3> QED
            BY <2>3, <3>2, <3>3 DEF ReadOnDemand, BeginRead
    <2>4. CASE WriteResident(p, b)
        <3>1. UNCHANGED migrations
            BY <2>4 DEF WriteResident
        <3>2. \/ Refuse(location[p])
              \/ Take(location[p]) /\ UNCHANGED <<stallVars, stalledCallers, registered>>
            BY <2>4 DEF WriteResident
        <3> QED
            BY <1>1, <1>2, <1>4, <3>1, <3>2 DEF WaitOn, KeepWaiting
    <2>5. CASE WriteOnDemand(p, b)
        <3> DEFINE e == [new EXCEPT !.state[b] = "BUFFERED", !.dirty[b] = TRUE,
                                    !.leftToRead = Dec(@), !.unread = {b}]
        <3>1. WriteOn(ReadOn(e), b) \in Entry
            <4>1. e \in Entry
                BY <2>1, DecIs DEF Entry
            <4>2. ReadOn(e) \in Entry
                BY <4>1, StartingKeeps
            <4> QED
                BY <4>2, StartingKeeps
        <3>2. migrations' = Put(p, WriteOn(ReadOn(e), b)) /\ UNCHANGED <<stallVars, memVars>>
            BY <2>5 DEF WriteOnDemand
        <3>3. SidesKept
            BY <1>8, <3>1, <3>2, PutSides
        <3> QED
            BY <1>3, <3>2, <3>3 DEF WaitOn, KeepWaiting
    <2> QED
        BY <1>8, <2>2, <2>3, <2>4, <2>5
<1> QED
    BY <1>6, <1>7, <1>8 DEF Access

\* The manager, and what is told to it.
LEMMA ManagerWaitsOn ==
    ASSUME IInv, CalmRollback, NEW p \in Pages,
           CopyPage(p) \/ Rollback(p) \/ CopyEvent(p) \/ Finish(p)
    PROVE  WaitOn
<1>1. TypeOK /\ TableTyped
    BY TypesGive DEF IInv
<1>2. SUFFICES SidesKept
    BY DEF CopyPage, Rollback, CopyEvent, Finish, WaitOn, KeepWaiting, memVars, stallVars
<1>3. CASE CopyPage(p)
    <2>1. p \notin Migrating
        BY <1>3 DEF CopyPage
    <2> DEFINE elided == IF Elide /\ p \in DOMAIN dirties THEN dirties[p] ELSE {}
               e == [NewEntry("dram", "pcm") EXCEPT
                         !.state = [b \in Blocks |-> IF b \in elided THEN "WRITTEN" ELSE "NOT_READ"],
                         !.leftToWrite = @ - Cardinality(elided),
                         !.nextRead = IF elided = Blocks THEN -1 ELSE First(Blocks \ elided)]
    <2>2. migrations' = Put(p, e)
        BY <1>3 DEF CopyPage
    <2> HIDE DEF e
    <2>3. \A q \in Migrating : migrations'[q] = migrations[q]
        BY <2>1, <2>2 DEF Put, Migrating
    <2> QED
        BY <2>3 DEF SidesKept
<1>4. CASE Rollback(p)
    <2>1. ~Contains(stalledOnRead, p) /\ ~Contains(stalledOnWrite, p)
        BY <1>4 DEF Rollback, IsCalm
    <2> DEFINE old == migrations[p]
               toRead == {b \in InState(old, "WRITTEN") : old.dirty[b]}
               buffered == {b \in InState(old, "BUFFERED") : old.dirty[b]}
               e == [old EXCEPT
                         !.src = "dram", !.dest = "pcm", !.rolledBack = TRUE, !.unread = {},
                         !.state = [b \in Blocks |-> IF b \in toRead THEN "NOT_READ"
                                                     ELSE IF b \in buffered THEN "BUFFERED" ELSE "WRITTEN"],
                         !.leftToRead = Cardinality(toRead),
                         !.leftToCompleteRead = Cardinality(toRead),
                         !.leftToWrite = Cardinality(toRead \cup buffered),
                         !.nextRead = IF toRead = {} THEN @ ELSE First(toRead),
                         !.nextWrite = IF toRead \cup buffered = {} THEN @
                                       ELSE IF buffered = {} THEN -1 ELSE First(buffered)]
    <2>2. migrations' = Put(p, e)
        BY <1>4 DEF Rollback
    <2> HIDE DEF e
    <2>3. \A q \in Migrating \ {p} : migrations'[q] = migrations[q]
        BY <2>2 DEF Put, Migrating
    <2> QED
        BY <2>1, <2>3 DEF SidesKept
<1>5. CASE CopyEvent(p)
    <2>1. p \in Migrating /\ Complete(p, migrations[p], reads)
        BY <1>5 DEF CopyEvent
    <2>2. migrations[p] \in Entry /\ Same(migrations[p], migrations[p])
        BY <1>1, <2>1 DEF TableTyped, Same
    <2> QED
        BY <1>1, <2>1, <2>2, PutBackSides
<1>6. CASE Finish(p)
    <2>1. migrations' = Without(p) /\ p \in Migrating
        BY <1>6 DEF Finish
    <2> QED
        BY <1>1, <2>1, WithoutIs DEF SidesKept
<1> QED
    BY <1>3, <1>4, <1>5, <1>6

\* An answer of a memory.
LEMMA AnswerWaitsOn ==
    ASSUME TypeOK, NEW r \in reads, ReadReturns(r)
    PROVE  WaitOn
<1> DEFINE p == r.page
           b == r.block
           old == migrations[p]
           counted == [old EXCEPT !.leftToCompleteRead = Dec(@)]
           read == [counted EXCEPT !.state[b] = "BUFFERED"]
           g == CallBack(read, b)
           f == WriteOn(g, b)
           h == IF old.state[b] = "WRITTEN" /\ old.rolledBack THEN CallBack(counted, b) ELSE counted
           rest == reads \ {r}
<1>1. /\ UNCHANGED <<notifications, accesses, placeVars, stallVars, memVars>>
      /\ \/ /\ ~r.partOfMigration
            /\ reads' = rest
            /\ UNCHANGED <<migrations, events, fresh>>
         \/ /\ r.partOfMigration /\ p \in Migrating
            /\ old.state[b] = "READING" /\ r.from = old.src
            /\ PutOrComplete(p, f, rest)
            /\ AddEvents(WriteOnEvent(p, old))
            /\ Copied(p, b, r.from, "buffer")
         \/ /\ r.partOfMigration /\ p \in Migrating
            /\ PutOrComplete(p, h, rest)
            /\ UNCHANGED <<events, fresh>>
    BY DEF ReadReturns
<1>2. TableTyped /\ p \in Pages /\ b \in Blocks
    BY TypesGive DEF Reads
<1>3. SUFFICES SidesKept
    BY <1>1 DEF WaitOn, KeepWaiting, memVars
<1>4. CASE UNCHANGED migrations
    BY <1>4 DEF SidesKept
<1>5. ASSUME p \in Migrating
      PROVE  f \in Entry /\ Same(old, f) /\ h \in Entry /\ Same(old, h)
    <2>1. old \in Entry
        BY <1>2, <1>5 DEF TableTyped
    <2> HIDE DEF old, b
    <2>2. old.leftToCompleteRead \in Nat
        BY <2>1 DEF Entry
    <2>3. Dec(old.leftToCompleteRead) \in Nat
        BY <2>2, DecIs
    <2>4. counted \in Entry /\ Same(old, counted)
        BY <2>1, <2>3 DEF Entry, Same
    <2> HIDE DEF counted
    <2>5. CallBack(counted, b) \in Entry /\ Same(old, CallBack(counted, b))
        BY <2>4 DEF CallBack, Entry, Same
    <2>6. read \in Entry /\ Same(old, read)
        BY <1>2, <2>4 DEF Entry, Same
    <2> HIDE DEF read
    <2>7. g \in Entry /\ Same(old, g)
        BY <2>6 DEF CallBack, Entry, Same
    <2> HIDE DEF g
    <2>8. f \in Entry /\ Same(old, f)
        BY <1>2, <2>7, StartingKeeps DEF Alike, Same
    <2> QED
        BY <2>4, <2>5, <2>8
<1>6. CASE p \in Migrating /\ (PutOrComplete(p, f, rest) \/ PutOrComplete(p, h, rest))
    <2> HIDE DEF f, h, rest, p
    <2>1. f \in Entry /\ Same(migrations[p], f) /\ h \in Entry /\ Same(migrations[p], h)
        BY <1>5, <1>6
    <2> QED
        BY <1>6, <2>1, PutBackSides
<1> HIDE DEF f, h, rest, p, b
<1> QED
    BY <1>1, <1>4, <1>6

\* The reads of the buffer are answered, or nothing happens.
LEMMA NothingWaitsOn ==
    ASSUME Notify \/ UNCHANGED vars
    PROVE  WaitOn
    BY DEF Notify, vars, WaitOn, KeepWaiting, SidesKept, memVars

\* The first copy to stall.
LEMMA FirstInLine ==
    ASSUME NEW s, s = <<>>, NEW p
    PROVE  DOMAIN Append(s, p) = {1} /\ Append(s, p)[1] = p
    OBVIOUS

\* With OneQueue an event of a page is of the only one that could be in a list.
LEMMA NobodyBefore ==
    ASSUME TypeOK, StalledForOne, OneQueue, NEW p \in Pages
    PROVE  /\ Occurrences(stalledOnRead, p) = 0 => stalledOnRead = <<>>
           /\ Occurrences(stalledOnWrite, p) = 0 => stalledOnWrite = <<>>
<1>1. /\ stalledOnRead \in Seq(Pages) /\ stalledOnWrite \in Seq(Pages) /\ full \subseteq MayFill
    BY DEF TypeOK
<1>2. full # {} => \A q \in Pages : q = p
    BY <1>1 DEF OneQueue
<1>3. ASSUME stalledOnRead # <<>> PROVE Occurrences(stalledOnRead, p) # 0
    <2>1. 1 \in DOMAIN stalledOnRead
        BY <1>1, <1>3, LenProperties, EmptySeq
    <2>2. full # {} /\ stalledOnRead[1] \in Pages /\ Occurrences(stalledOnRead, stalledOnRead[1]) # 0
        BY <1>1, <2>1, ListedOccurs DEF StalledForOne, ReadersForOne
    <2> QED
        BY <1>2, <2>2
<1>4. ASSUME stalledOnWrite # <<>> PROVE Occurrences(stalledOnWrite, p) # 0
    <2>1. 1 \in DOMAIN stalledOnWrite
        BY <1>1, <1>4, LenProperties, EmptySeq
    <2>2. full # {} /\ stalledOnWrite[1] \in Pages /\ Occurrences(stalledOnWrite, stalledOnWrite[1]) # 0
        BY <1>1, <2>1, ListedOccurs DEF StalledForOne, WritersForOne
    <2> QED
        BY <1>2, <2>2
<1> QED
    BY <1>3, <1>4

\* The next block is read by the copy itself, or the page stalls.
LEMMA ReadEventForOne ==
    ASSUME IInv, NEW p \in Pages, ReadEvent(p)
    PROVE  TypeOK' /\ StalledForOne /\ OneQueue /\ AllAgree' => StalledForOne'
<1> DEFINE old == migrations[p]
           from == {c \in InState(old, "NOT_READ") : c >= old.nextRead}
           b == First(from)
           e == [old EXCEPT !.state[b] = "READING", !.leftToRead = Dec(@)]
           left == InState(e, "NOT_READ")
           next == IF left = {} THEN b ELSE First(left)
           f == [e EXCEPT !.nextRead = next]
           r == Read(p, b, old.src, FALSE, TRUE)
           more == IF left = {} THEN {} ELSE {<<"READ", p>>}
<1>1. /\ p \in Migrating /\ Pending("READ", p)
      /\ UNCHANGED <<notifications, fresh, accesses, placeVars>>
      /\ \/ /\ old.leftToRead = 0
            /\ TakeEvent(<<"READ", p>>, {})
            /\ UNCHANGED <<migrations, reads, stallVars, memVars>>
         \/ old.leftToRead > 0 /\ from = {}
         \/ /\ old.leftToRead > 0
            /\ Take(old.src)
            /\ migrations' = Put(p, f)
            /\ reads' = reads \cup {r}
            /\ TakeEvent(<<"READ", p>>, more)
            /\ UNCHANGED <<stallVars, stalledCallers, registered>>
         \/ /\ old.leftToRead > 0
            /\ ~CopyAccepted(old.src, stalledOnRead)
            /\ IF stalledOnRead = <<>> THEN Stall(old.src) ELSE UNCHANGED memVars
            /\ migrations' = [migrations EXCEPT ![p].nextRead = b]
            /\ stalledOnRead' = Append(stalledOnRead, p)
            /\ TakeEvent(<<"READ", p>>, {})
            /\ UNCHANGED <<reads, stalledOnWrite>>
    BY DEF ReadEvent
<1>2. /\ TypeOK /\ TableTyped /\ old \in Entry /\ old.src \in Mems /\ ReadLinked(old, ReadChain(p))
      /\ ReadCursor(old) /\ Counts(old, CountedReads(p))
    BY <1>1, CopyBefore, TypesGive DEF IInv, Entry
<1> SUFFICES ASSUME TypeOK', StalledForOne, OneQueue, AllAgree' PROVE StalledForOne'
    OBVIOUS
<1>3. Occurrences(stalledOnRead, p) = 0
    <2>1. /\ events[<<"READ", p>>] \in Nat /\ Occurrences(stalledOnRead, p) \in Nat
          /\ events[<<"READ", p>>] > 0
        BY <1>1, <1>2, ChainsAre DEF Pending
    <2>2. ReadChain(p) = events[<<"READ", p>>] + Occurrences(stalledOnRead, p)
        BY DEF ReadChain
    <2>3. ReadChain(p) \in {0, 1}
        BY <1>2 DEF ReadLinked
    <2> QED
        BY <2>1, <2>2, <2>3
<1>4. stalledOnRead = <<>>
    BY <1>2, <1>3, NobodyBefore
<1>5. from \in SUBSET Blocks /\ (from # {} => b \in Blocks /\ b \in Nat)
    <2>1. from \in SUBSET Blocks
        BY DEF InState
    <2> QED
        BY <2>1, FirstIs, PageCopyAssumption DEF Blocks
<1>6. CASE UNCHANGED <<migrations, stallVars, memVars>>
    <2>1. WaitOn
        BY <1>6 DEF WaitOn, KeepWaiting, SidesKept, memVars
    <2> QED
        BY <1>2, <2>1, WaitsOn
<1>7. ~(old.leftToRead > 0 /\ from = {})
    <2>1. from = InState(old, "NOT_READ")
        <3>1. \A c \in InState(old, "NOT_READ") : old.nextRead <= c
            BY <1>2 DEF ReadCursor
        <3>2. InState(old, "NOT_READ") \in SUBSET Blocks /\ old.nextRead \in Blocks
            BY <1>2 DEF InState, ReadCursor
        <3> QED
            BY <3>1, <3>2, PageCopyAssumption DEF Blocks
    <2> HIDE DEF from, old
    <2> QED
        BY <1>2, <2>1, CountsSay
<1>8. CASE /\ Take(old.src)
           /\ migrations' = Put(p, f)
           /\ UNCHANGED <<stallVars, stalledCallers, registered>>
    <2>1. f.src = old.src /\ f.dest = old.dest
        BY <1>2 DEF Entry
    <2> HIDE DEF f
    <2>2. migrations'[p] = f /\ \A q \in Migrating \ {p} : migrations'[q] = migrations[q]
        BY <1>1, <1>8 DEF Put, Migrating
    <2>3. SidesKept
        BY <2>1, <2>2 DEF SidesKept
    <2>4. full \subseteq full' /\ registered \subseteq registered'
        BY <1>2, <1>8, MemTypedKept
    <2>5. WaitOn
        BY <1>8, <2>3, <2>4 DEF WaitOn, KeepWaiting
    <2> QED
        BY <1>2, <2>5, WaitsOn
<1>9. CASE /\ old.leftToRead > 0
           /\ ~CopyAccepted(old.src, stalledOnRead)
           /\ IF stalledOnRead = <<>> THEN Stall(old.src) ELSE UNCHANGED memVars
           /\ migrations' = [migrations EXCEPT ![p].nextRead = b]
           /\ stalledOnRead' = Append(stalledOnRead, p)
           /\ UNCHANGED <<reads, stalledOnWrite>>
    <2> DEFINE g == [old EXCEPT !.nextRead = b]
    <2>1. g \in Entry /\ Same(old, g) /\ migrations' = [migrations EXCEPT ![p] = g]
        BY <1>2, <1>5, <1>7, <1>9 DEF Entry, Same
    <2>2. SidesKept
        BY <1>1, <1>2, <2>1, PutSides
    <2>3. old.src \in full /\ full' = full /\ registered' = registered \cup {old.src}
        BY <1>4, <1>9 DEF CopyAccepted, Stall
    <2>4. WritersForOne'
        BY <1>2, <1>9, <2>2, <2>3, StaysForOne DEF KeepWaiting
    <2>5. DOMAIN stalledOnRead' = {1} /\ stalledOnRead'[1] = p
        BY <1>4, <1>9, FirstInLine
    <2>6. p \in Migrating' /\ migrations'[p].src = old.src
        BY <1>1, <1>2, <2>1, ChangeIs DEF Same
    <2>7. ReadersForOne'
        BY <2>3, <2>5, <2>6 DEF ReadersForOne
    <2> QED
        BY <2>4, <2>7 DEF StalledForOne
<1> HIDE DEF old, from, f, b
<1> QED
    BY <1>1, <1>6, <1>7, <1>8, <1>9

\* A buffered block is written to the destination, or the page stalls.
LEMMA WriteEventForOne ==
    ASSUME IInv, NEW p \in Pages, WriteEvent(p)
    PROVE  TypeOK' /\ StalledForOne /\ OneQueue /\ AllAgree' => StalledForOne'
<1> DEFINE old == migrations[p]
           b == old.nextWrite
           e == [old EXCEPT !.state[b] = "WRITTEN", !.leftToWrite = Dec(@)]
           left == InState(e, "BUFFERED")
           next == IF e.leftToWrite = 0 THEN b ELSE IF left = {} THEN -1 ELSE First(left)
           f == [e EXCEPT !.nextWrite = next]
<1>1. /\ p \in Migrating /\ Pending("WRITE", p)
      /\ \/ /\ old.leftToWrite = 0
            /\ TakeEvent(<<"WRITE", p>>, {})
            /\ UNCHANGED <<migrations, reads, fresh, stallVars, memVars>>
         \/ /\ b # -1
            /\ Take(old.dest)
            /\ PutOrComplete(p, f, reads)
            /\ UNCHANGED <<stallVars, stalledCallers, registered>>
         \/ /\ ~CopyAccepted(old.dest, stalledOnWrite)
            /\ IF stalledOnWrite = <<>> THEN Stall(old.dest) ELSE UNCHANGED memVars
            /\ stalledOnWrite' = Append(stalledOnWrite, p)
            /\ UNCHANGED <<migrations, reads, fresh, stalledOnRead>>
    BY DEF WriteEvent
<1>2. /\ TypeOK /\ TableTyped /\ old \in Entry /\ old.dest \in Mems /\ WriteLinked(old, WriteChain(p))
    BY <1>1, CopyBefore, TypesGive DEF IInv, Entry
<1> SUFFICES ASSUME TypeOK', StalledForOne, OneQueue, AllAgree' PROVE StalledForOne'
    OBVIOUS
<1>3. Occurrences(stalledOnWrite, p) = 0
    <2>1. /\ events[<<"WRITE", p>>] \in Nat /\ Occurrences(stalledOnWrite, p) \in Nat
          /\ events[<<"WRITE", p>>] > 0
        BY <1>1, <1>2, ChainsAre DEF Pending
    <2>2. WriteChain(p) = events[<<"WRITE", p>>] + Occurrences(stalledOnWrite, p)
        BY DEF WriteChain
    <2>3. WriteChain(p) \in {0, 1}
        BY <1>2 DEF WriteLinked
    <2> QED
        BY <2>1, <2>2, <2>3
<1>4. stalledOnWrite = <<>>
    BY <1>2, <1>3, NobodyBefore
<1>5. CASE UNCHANGED <<migrations, stallVars, memVars>>
    <2>1. WaitOn
        BY <1>5 DEF WaitOn, KeepWaiting, SidesKept, memVars
    <2> QED
        BY <1>2, <2>1, WaitsOn
<1>6. CASE /\ b # -1
           /\ Take(old.dest)
           /\ PutOrComplete(p, f, reads)
           /\ UNCHANGED <<stallVars, stalledCallers, registered>>
    <2>1. f \in Entry /\ Same(old, f)
        <3>1. b \in Blocks /\ Dec(old.leftToWrite) \in Nat
            BY <1>2, <1>6, DecIs DEF Entry
        <3>2. e \in Entry /\ Same(old, e)
            BY <1>2, <3>1 DEF Entry, Same
        <3>3. left \in SUBSET Blocks
            BY DEF InState
        <3> HIDE DEF e, left
        <3>4. next \in Blocks \cup {-1}
            BY <3>1, <3>3, FirstIs
        <3> HIDE DEF next
        <3> QED
            BY <3>2, <3>4 DEF Entry, Same
    <2> HIDE DEF f
    <2>2. SidesKept
        BY <1>1, <1>2, <1>6, <2>1, PutBackSides
    <2>3. full \subseteq full' /\ registered \subseteq registered'
        BY <1>2, <1>6, MemTypedKept
    <2>4. WaitOn
        BY <1>6, <2>2, <2>3 DEF WaitOn, KeepWaiting
    <2> QED
        BY <1>2, <2>4, WaitsOn
<1>7. CASE /\ ~CopyAccepted(old.dest, stalledOnWrite)
           /\ IF stalledOnWrite = <<>> THEN Stall(old.dest) ELSE UNCHANGED memVars
           /\ stalledOnWrite' = Append(stalledOnWrite, p)
           /\ UNCHANGED <<migrations, reads, fresh, stalledOnRead>>
    <2>1. old.dest \in full /\ full' = full /\ registered' = registered \cup {old.dest}
        BY <1>4, <1>7 DEF CopyAccepted, Stall
    <2>2. KeepWaiting
        BY <1>7, <2>1 DEF KeepWaiting, SidesKept
    <2>3. ReadersForOne'
        BY <1>2, <1>7, <2>2, StaysForOne
    <2>4. DOMAIN stalledOnWrite' = {1} /\ stalledOnWrite'[1] = p
        BY <1>4, <1>7, FirstInLine
    <2>5. p \in Migrating' /\ migrations'[p].dest = old.dest
        BY <1>1, <1>7 DEF Migrating
    <2>6. WritersForOne'
        BY <2>1, <2>4, <2>5 DEF WritersForOne
    <2> QED
        BY <2>3, <2>6 DEF StalledForOne
<1> QED
    BY <1>1, <1>5, <1>6, <1>7

\* A memory calls, and the lists are empty, or nobody waits for it.
LEMMA DrainsForOne ==
    ASSUME TypeOK, StalledForOne, NEW m \in Mems, MemoryDrains(m)
    PROVE  StalledForOne'
<1>1. CASE m \in registered
    <2>1. stalledOnRead' = <<>> /\ stalledOnWrite' = <<>>
        BY <1>1 DEF MemoryDrains
    <2> QED
        BY <2>1 DEF StalledForOne, ReadersForOne, WritersForOne
<1>2. CASE m \notin registered
    <2>1. UNCHANGED <<stalledOnRead, stalledOnWrite, migrations>> /\ full' \cap registered' = full \cap registered
        BY <1>2 DEF MemoryDrains, stallVars
    <2> QED
        BY <2>1 DEF StalledForOne, ReadersForOne, WritersForOne, Migrating
<1> QED
    BY <1>1, <1>2

\* Whatever happens, those that stalled wait for the memory they need.
LEMMA ForOneStep ==
    ASSUME IInv, TypeOK', OneQueue, CalmRollback, [Next]_vars, AllAgree'
    PROVE  StalledForOne'
<1>1. TypeOK /\ StalledForOne
    BY DEF IInv
<1>2. SUFFICES ASSUME ~StalledForOne' PROVE FALSE
    OBVIOUS
<1>3. ~WaitOn
    BY <1>1, <1>2, WaitsOn
<1>4. ASSUME NEW p \in Pages, NEW b \in Blocks PROVE ~Access(p, b)
    BY <1>1, <1>3, <1>4, AccessWaitsOn
<1>5. ASSUME NEW p \in Pages PROVE ~(CopyPage(p) \/ Rollback(p) \/ CopyEvent(p) \/ Finish(p))
    BY <1>3, <1>5, ManagerWaitsOn
<1>6. ASSUME NEW r \in reads PROVE ~ReadReturns(r)
    BY <1>1, <1>3, <1>6, AnswerWaitsOn
<1>7. ASSUME NEW p \in Pages PROVE ~ReadEvent(p) /\ ~WriteEvent(p)
    BY <1>1, <1>2, <1>7, ReadEventForOne, WriteEventForOne
<1>8. ASSUME NEW m \in Mems PROVE ~MemoryDrains(m)
    BY <1>1, <1>2, <1>8, DrainsForOne
<1>9. ~Notify /\ ~UNCHANGED vars
    BY <1>3, NothingWaitsOn
<1> QED
    BY <1>4, <1>5, <1>6, <1>7, <1>8, <1>9 DEF Next
-----------------------------------------------------------------------------
(* The invariant holds *)

\* To begin with no page is being copied, and each is where it is mapped.
LEMMA IInvInit == Init => IInv
<1>1. SUFFICES ASSUME Init PROVE IInv
    OBVIOUS
<1>2. TypeOK
    BY <1>1, TypeOKInit
<1>3. /\ Migrating = {} /\ stalledOnRead = <<>> /\ stalledOnWrite = <<>> /\ reads = {}
      /\ fresh = [p \in Pages |-> [b \in Blocks |-> {location[p]}]]
      /\ events = [kp \in Kinds \X Pages |-> 0]
    BY <1>1 DEF Init, Migrating
<1>4. ASSUME NEW p \in Pages PROVE Resting(p)
    <2>1. Occurrences(stalledOnRead, p) = 0 /\ Occurrences(stalledOnWrite, p) = 0
        BY <1>3, OccurrencesEmpty
    <2>2. \A k \in Kinds : events[<<k, p>>] = 0
        BY <1>3
    <2>3. "READ" \in Kinds /\ "WRITE" \in Kinds /\ "COPY" \in Kinds
        BY DEF Kinds
    <2>4. ReadChain(p) = 0 /\ WriteChain(p) = 0
        BY <2>1, <2>2, <2>3 DEF ReadChain, WriteChain
    <2>5. CountedReads(p) = {} /\ \A b \in Blocks : location[p] \in fresh[p][b]
        BY <1>3 DEF CountedReads
    <2> QED
        BY <2>2, <2>3, <2>4, <2>5 DEF Resting
<1> QED
    BY <1>2, <1>3, <1>4 DEF IInv, Agrees, StalledWait, StalledForOne, ReadersForOne, WritersForOne

\* A request of a cache.
LEMMA AccessAgrees ==
    ASSUME IInv, CalmRollback, NEW p \in Pages, NEW b \in Blocks, Access(p, b)
    PROVE  (\A q \in Pages : Agrees(q)') /\ StalledWait'
<1>1. Served(p, b)
    BY DEF Access
<1>2. CASE p \in Migrating /\ (ReadUnread(p, b) \/ ReadJoins(p, b) \/ ReadBuffered(p, b) \/ ReadWritten(p, b))
    BY <1>1, <1>2, ReadUnreadAgrees, ReadJoinsAgrees, ReadBufferedAgrees, ReadWrittenAgrees
<1>3. CASE /\ p \in Migrating
           /\ WriteUnread(p, b) \/ WriteOvertakes(p, b) \/ WriteBuffered(p, b) \/ WriteWritten(p, b)
    BY <1>1, <1>3, WriteUnreadAgrees, WriteOvertakesAgrees, WriteBufferedAgrees, WriteWrittenAgrees
<1>4. CASE p \notin Migrating /\ (ReadResident(p, b) \/ ReadOnDemand(p, b))
    BY <1>4, ReadResidentAgrees, ReadOnDemandAgrees
<1>5. CASE p \notin Migrating /\ (WriteResident(p, b) \/ WriteOnDemand(p, b))
    BY <1>5, WriteResidentAgrees, WriteOnDemandAgrees
<1> QED
    BY <1>2, <1>3, <1>4, <1>5 DEF Access

\* Every step keeps the invariant.
LEMMA IInvStep ==
    ASSUME Configured
    PROVE  IInv /\ [Next]_vars => IInv'
<1>1. SUFFICES ASSUME IInv, [Next]_vars PROVE IInv'
    OBVIOUS
<1>2. TypeOK' /\ CalmRollback
    BY <1>1, TypeOKStep DEF IInv, Configured
<1>3. SUFFICES (\A q \in Pages : Agrees(q)') /\ StalledWait'
    BY <1>1, <1>2, ForOneStep DEF IInv, OneQueue, AllAgree
<1>4. ASSUME NEW p \in Pages, NEW b \in Blocks, Access(p, b)
      PROVE  (\A q \in Pages : Agrees(q)') /\ StalledWait'
    BY <1>1, <1>2, <1>4, AccessAgrees
<1>5. ASSUME NEW p \in Pages, CopyPage(p) \/ Rollback(p)
      PROVE  (\A q \in Pages : Agrees(q)') /\ StalledWait'
    BY <1>1, <1>2, <1>5, CopyPageAgrees, RollbackAgrees
<1>6. ASSUME NEW p \in Pages, ReadEvent(p) \/ WriteEvent(p) \/ CopyEvent(p) \/ Finish(p)
      PROVE  (\A q \in Pages : Agrees(q)') /\ StalledWait'
    BY <1>1, <1>6, ReadEventAgrees, WriteEventAgrees, CopyEventAgrees, FinishAgrees
<1>7. ASSUME NEW r \in reads, ReadReturns(r)
      PROVE  (\A q \in Pages : Agrees(q)') /\ StalledWait'
    BY <1>1, <1>7, ReadReturnsAgrees
<1>8. CASE Notify
    BY <1>1, <1>8, NotifyAgrees
<1>9. ASSUME NEW m \in Mems, MemoryDrains(m)
      PROVE  (\A q \in Pages : Agrees(q)') /\ StalledWait'
    BY <1>1, <1>9, MemoryDrainsAgrees
<1>10. CASE UNCHANGED vars
    <2>1. /\ UNCHANGED <<setting, location, migrations, events, fresh, stallVars>>
          /\ full \subseteq full' /\ registered \subseteq registered'
        BY <1>10 DEF vars, placeVars, memVars
    <2>2. \A q \in Pages : CountedReads(q)' = CountedReads(q)
        BY <1>10 DEF vars, CountedReads
    <2> QED
        BY <1>1, <2>1, <2>2, NoneConcerned
<1> QED
    BY <1>1, <1>4, <1>5, <1>6, <1>7, <1>8, <1>9, <1>10 DEF Next

\* Where a read is sent has the last contents.
LEMMA CoherentFrom ==
    ASSUME IInv, CalmRollback
    PROVE  Coherent
<1>1. SUFFICES ASSUME NEW p \in Pages, NEW b \in Blocks, Served(p, b)
               PROVE  Holder(p, b) \in fresh[p][b]
    BY DEF Coherent
<1>2. CASE p \notin Migrating
    BY <1>2 DEF IInv, Agrees, Resting, Holder
<1>3. CASE p \in Migrating
    <2> DEFINE e == migrations[p]
    <2>1. e \in Entry /\ Body(e, CountedReads(p), fresh[p], location[p])
        BY <1>3, CopyBefore
    <2>2. e.state[b] \in States
        BY <2>1 DEF Entry, States
    <2>3. Served(p, b) /\ e.rolledBack => e.state[b] \in {"BUFFERED", "WRITTEN"}
        BY <1>3 DEF Served
    <2>4. e.state[b] = "NOT_READ" => location[p] = e.src
        BY <1>1, <2>1, <2>3 DEF Body, Sides
    <2>5. /\ e.state[b] = "NOT_READ" => Holder(p, b) = location[p]
          /\ e.state[b] = "READING" => Holder(p, b) = e.src
          /\ e.state[b] = "BUFFERED" => Holder(p, b) = "buffer"
          /\ e.state[b] = "WRITTEN" => Holder(p, b) = e.dest
        BY <1>3 DEF Holder
    <2> HIDE DEF e
    <2>6. /\ e.state[b] \in {"NOT_READ", "READING"} => e.src \in fresh[p][b]
          /\ e.state[b] = "BUFFERED" => "buffer" \in fresh[p][b]
          /\ e.state[b] = "WRITTEN" => e.dest \in fresh[p][b]
        BY <2>1 DEF Body, Held
    <2> QED
        BY <2>2, <2>4, <2>5, <2>6 DEF States
<1> QED
    BY <1>2, <1>3

\* The counters are right, the assertions hold, and what is reported is complete.
LEMMA CopyFactsFrom ==
    ASSUME IInv
    PROVE  CountersAgree /\ AssertionsHold /\ CopiedIsComplete
<1>1. TypeOK /\ reads \subseteq Reads
    BY TypesGive DEF IInv
<1>2. ASSUME NEW p \in Migrating
      PROVE  /\ p \in Pages /\ migrations[p] \in Entry
             /\ Counts(migrations[p], CountedReads(p)) /\ Answers(migrations[p], CountedReads(p))
             /\ Held(migrations[p], fresh[p])
             /\ migrations[p].copied => IsComplete(migrations[p])
             /\ ReadCursor(migrations[p])
             /\ WriteCursor(migrations[p]) /\ WriteLinked(migrations[p], WriteChain(p))
    BY <1>2, CopyBefore DEF Body, Sides
<1>3. ASSUME NEW p \in Pages, p \notin Migrating
      PROVE  CountedReads(p) = {} /\ \A k \in Kinds : ~Pending(k, p)
    <2>1. Resting(p)
        BY <1>3 DEF IInv, Agrees
    <2>2. /\ events[<<"READ", p>>] \in Nat /\ events[<<"WRITE", p>>] \in Nat /\ events[<<"COPY", p>>] \in Nat
          /\ Occurrences(stalledOnRead, p) \in Nat /\ Occurrences(stalledOnWrite, p) \in Nat
        BY <1>1, ChainsAre
    <2>3. events[<<"READ", p>>] = 0 /\ events[<<"WRITE", p>>] = 0 /\ events[<<"COPY", p>>] = 0
        BY <2>1, <2>2 DEF Resting, ReadChain, WriteChain
    <2> QED
        BY <2>1, <2>3 DEF Resting, Kinds, Pending
<1>4. CountersAgree
    BY <1>2 DEF CountersAgree, Counts
<1>5. AssertionsHold
    <2>1. \A p \in Pages, k \in Kinds : Pending(k, p) => p \in Migrating
        BY <1>3
    <2>2. ASSUME NEW p \in Migrating
          PROVE  /\ Pending("READ", p) /\ migrations[p].leftToRead > 0 => migrations[p].nextRead \in Blocks
                 /\ Pending("WRITE", p) /\ migrations[p].leftToWrite > 0 =>
                        migrations[p].nextWrite \in InState(migrations[p], "BUFFERED")
        <3>1. migrations[p].nextRead \in Blocks
            BY <1>2, <2>2 DEF ReadCursor
        <3>2. Pending("WRITE", p) => WriteChain(p) # 0
            <4>1. events[<<"WRITE", p>>] \in Nat /\ Occurrences(stalledOnWrite, p) \in Nat
                BY <1>1, <1>2, <2>2, ChainsAre
            <4> QED
                BY <4>1 DEF Pending, WriteChain
        <3>3. Pending("WRITE", p) => migrations[p].nextWrite \in InState(migrations[p], "BUFFERED")
            BY <1>2, <2>2, <3>2 DEF WriteLinked, WriteCursor
        <3> QED
            BY <3>1, <3>3
    <2>3. ASSUME NEW r \in reads, r.partOfMigration
          PROVE  /\ r.page \in Migrating
                 /\ migrations[r.page].state[r.block] # "NOT_READ"
                 /\ migrations[r.page].state[r.block] = "READING" => r.from = migrations[r.page].src
        <3>1. r.page \in Pages /\ r \in CountedReads(r.page)
            BY <1>1, <2>3 DEF Reads, CountedReads
        <3>2. r.page \in Migrating
            BY <1>3, <3>1
        <3> QED
            BY <1>2, <3>1, <3>2 DEF Answers
    <2> QED
        BY <2>1, <2>2, <2>3 DEF AssertionsHold
<1>6. CopiedIsComplete
    <2>1. SUFFICES ASSUME NEW p \in Migrating, migrations[p].copied, NEW b \in Blocks
                   PROVE  migrations[p].dest \in fresh[p][b]
        BY DEF CopiedIsComplete
    <2>2. migrations[p].leftToWrite = 0
        BY <1>2, <2>1 DEF IsComplete
    <2>3. InState(migrations[p], "WRITTEN") = Blocks
        BY <1>2, <2>2, CountsSay
    <2> QED
        BY <1>2, <2>3 DEF Held, InState
<1> QED
    BY <1>4, <1>5, <1>6

\* With OneQueue there is one chain where there has to be one.
LEMMA OneChainFrom ==
    ASSUME IInv, OneQueue
    PROVE  OneChain
<1>1. SUFFICES ASSUME NEW p \in Migrating
               PROVE  /\ ReadsItself(p) => ReadChain(p) = 1
                      /\ WriteChain(p) = IF InState(migrations[p], "BUFFERED") # {} THEN 1 ELSE 0
    BY DEF OneChain, ReadChain, WriteChain
<1>2. ReadLinked(migrations[p], ReadChain(p)) /\ WriteLinked(migrations[p], WriteChain(p))
    BY CopyBefore
<1>3. ReadsItself(p) => ReadChain(p) = 1
    BY <1>2 DEF ReadsItself, ReadLinked
<1>4. WriteChain(p) = IF InState(migrations[p], "BUFFERED") # {} THEN 1 ELSE 0
    BY <1>2 DEF WriteLinked
<1> QED
    BY <1>3, <1>4

-----------------------------------------------------------------------------
(* Theorems *)

\* What access, the events and the callbacks leave behind keeps its type, whatever the
\* configuration: even where a copy goes wrong it is its contents that do, not its form.
THEOREM TypeCorrect == Spec => []TypeOK
    BY TypeOKInit, TypeOKStep, PTL DEF Spec

\* A copy agrees with its reads, its events and the contents of its blocks.
THEOREM Invariance ==
    ASSUME Configured
    PROVE  Spec => []IInv
<1>1. IInv /\ [Next]_vars => IInv'
    BY IInvStep
<1> QED
    BY <1>1, IInvInit, PTL DEF Spec

\* A read gets the last contents of a block, whatever is being copied, written and
\* rolled back (access, 199-316).
THEOREM ReadsAreCoherent ==
    ASSUME Configured
    PROVE  Spec => []Coherent
<1>1. IInv => Coherent
    BY CoherentFrom DEF Configured
<1> QED
    BY <1>1, Invariance, PTL

\* The counters of a copy are what its blocks and reads say (574, 881), no assertion of
\* process or accessCompleted fails, and what is reported is in its new place, all of it.
THEOREM CopiesAddUp ==
    ASSUME Configured
    PROVE  Spec => [](CountersAgree /\ AssertionsHold /\ CopiedIsComplete)
<1>1. IInv => CountersAgree /\ AssertionsHold /\ CopiedIsComplete
    BY CopyFactsFrom
<1> QED
    BY <1>1, Invariance, PTL

\* Where no unstall drops a copy, because one page is copied and one memory refuses
\* requests or none does, each copy has exactly the events it needs as well: all that
\* the runs check of it.
THEOREM CopiesAgree ==
    ASSUME Configured, OneQueue
    PROVE  Spec => []CopyAgrees
<1>1. IInv => CopyAgrees
    BY CopyFactsFrom, OneChainFrom DEF CopyAgrees
<1> QED
    BY <1>1, Invariance, PTL
=============================================================================
