----------------------------- MODULE MultiQueue -----------------------------
(***************************************************************************)
(* The multi-queue policy (MultiQueueMigrationPolicy and its base class in *)
(* src/Migration.cpp): it says in which memory a page is allocated, which  *)
(* pages may be promoted on demand, and which page to demote, by queues    *)
(* for the access counts that the memory reports now and then.             *)
(* External here: the memory manager as far as it uses the policy.  It     *)
(* knows the migrations under way, has one demotion at a time and owns the *)
(* frames.                                                                 *)
(***************************************************************************)
EXTENDS PolicyQueues

CONSTANTS
    DramPages, MaxFree,     \* the policy's share of DRAM, and maxFreeDramPages
    Allocs,                 \* of "DRAM_FIRST", "PCM_ONLY"
    FlagSets,               \* settings: second, aging, history, rollback, filter
    DemotionAttempts,
    Counts,                 \* the numbers of reads that may be reported
    Steps, MaxTime,         \* bounds: how time goes on between reports
    MaxMoves                \* bound: migrations

ASSUME MultiQueueAssumption ==
    /\ DramPages \in Nat /\ MaxFree \in Nat /\ DemotionAttempts \in Nat /\ MaxTime \in Nat
    /\ MaxMoves \in Nat /\ Counts \subseteq Nat /\ Steps \subseteq Nat
    /\ FlagSets \subseteq [second : BOOLEAN, aging : BOOLEAN, history : BOOLEAN,
                           rollback : BOOLEAN, filter : BOOLEAN]

VARIABLES
    alloc, flags,    \* the settings
    policy,          \* the place of the pages, the lists, the time, and whether the program has failed
    left, full,      \* dramPagesLeft, dramFull
    tries,
    moving,          \* external: the migrations under way: whether the page frees its DRAM frame
    frames,          \* external: the free DRAM frames
    moves            \* how many migrations there have been

vars == <<alloc, flags, policy, left, full, tries, moving, frames, moves>>

Entry(p, exp, count, demoted, migrating) ==
    [page |-> p, exp |-> exp, count |-> count, demoted |-> demoted, migrating |-> migrating]

Fail(w, what) == [w EXCEPT !.failed = what]
Dram == In("DRAM", policy.place)
Pcm == In("PCM", policy.place)

-----------------------------------------------------------------------------
(* Allocation and promotion *)

\* Mutant: DRAM is never full.
NeverFull(n) == full

\* Full once the last frame is given, and from then on.
FullAfter(n) == full \/ (n = 1 /\ left = 1)

\* BaseMigrationPolicy::allocate
TypeFor == IF alloc = "DRAM_FIRST" /\ ~full THEN "DRAM" ELSE "PCM"

Allocate(p) ==
    LET place == IF TypeFor = "DRAM" THEN <<"DRAM", 0>> ELSE History
        exp == IF TypeFor = "DRAM" THEN policy.time + Lifetime ELSE 0
        ok == TypeFor = "DRAM" => left > 0 /\ frames > 0
        n == IF TypeFor = "DRAM" THEN 1 ELSE 0
    IN /\ p \notin DOMAIN policy.place
       /\ policy' = IF ok THEN Add(policy, p, place, Entry(p, exp, 0, FALSE, FALSE))
                    ELSE Fail(policy, "allocate")
       /\ left' = left - n /\ frames' = frames - n
       /\ full' = FullAfter(n)
       /\ UNCHANGED <<alloc, flags, tries, moving, moves>>

\* migrate, when the memory asks for a page that is read in PCM.
Migrate(p) ==
    LET entry == EntryOf(policy, p) IN
    /\ p \in Pcm \ DOMAIN moving /\ frames > 0 /\ moves < MaxMoves
    /\ left > 0
    /\ flags.filter => policy.place[p][2] >= ThresholdQueue
    /\ policy' = IF entry.migrating THEN Fail(policy, "migrate")
                 ELSE Move(policy, p, <<"DRAM", QueueOf(entry.count)>>, [entry EXCEPT !.migrating = TRUE])
    /\ left' = left - 1 /\ frames' = frames - 1
    /\ moving' = With(moving, p, FALSE) /\ moves' = moves + 1
    /\ UNCHANGED <<alloc, flags, full, tries>>

\* p's entry is no longer marked.
Settled(list, p) == [i \in DOMAIN list |-> [list[i] EXCEPT !.migrating = @ /\ list[i].page # p]]
Settle(w, p) == [w EXCEPT !.lists[w.place[p]] = Settled(@, p)]

\* done, when the manager has finished a migration or rolled it back.
Done(p) ==
    /\ p \in DOMAIN moving
    /\ policy' = IF ~EntryOf(policy, p).migrating THEN Fail(policy, "done")
                 ELSE Settle(policy, p)
    /\ moving' = [q \in DOMAIN moving \ {p} |-> moving[q]]
    /\ frames' = IF moving[p] THEN frames + 1 ELSE frames
    /\ UNCHANGED <<alloc, flags, left, full, tries, moves>>

-----------------------------------------------------------------------------
(* Monitoring *)

\* The count of an entry that comes back from the history or the victims.
Remembered(entry, queue, n, time) ==
    IF queue = -2 /\ ~flags.history THEN n
    ELSE IF flags.aging THEN Aged([entry EXCEPT !.count = @ + n], time) ELSE entry.count + n

Count(w, report) ==
    LET p == report.page
        entry == EntryOf(w, p)
        queue == w.place[p][2]
        count == IF queue < 0 THEN Remembered(entry, queue, report.reads, w.time) ELSE entry.count + report.reads
    IN Move(w, p, <<w.place[p][1], QueueOf(count)>>,
            Entry(p, w.time + Lifetime, count, FALSE, entry.migrating))

\* The first page of a queue goes one queue down, or out of the queues.
Expire(w, place) ==
    LET e == Head(w.lists[place])
        type == place[1]
        count == IF flags.aging THEN e.count \div 2 ELSE e.count
        out == place[2] = 0 \/ (flags.second /\ e.demoted)
    IN IF w.failed # "" \/ w.lists[place] = <<>> \/ w.time <= e.exp THEN w
       ELSE IF ~HasPages(e.page[1]) THEN Fail(w, "index")
       ELSE Move(w, e.page, IF out THEN Aside(type) ELSE <<type, place[2] - 1>>,
                 Entry(e.page, w.time + Lifetime, count, ~out, e.migrating))

AllQueues == [i \in 1 .. 2 * NumQueues |->
                 IF i <= NumQueues THEN <<"DRAM", i - 1>> ELSE <<"PCM", i - NumQueues - 1>>]

\* The page is counted, then the first page of each queue may expire.
Report(w, report) ==
    LET after[i \in 0 .. Len(AllQueues)] ==
            IF i = 0 THEN Count(w, report) ELSE Expire(after[i - 1], AllQueues[i])
    IN after[Len(AllQueues)]

\* monitor, of one or two pages.
Monitor ==
    /\ \E step \in Steps, p, q \in DOMAIN policy.place, n, m \in Counts :
           /\ policy.time + step <= MaxTime
           /\ LET first == Report([policy EXCEPT !.time = @ + step], [page |-> p, reads |-> n])
              IN policy' = IF p = q THEN first ELSE Report(first, [page |-> q, reads |-> m])
    /\ UNCHANGED <<alloc, flags, left, full, tries, moving, frames, moves>>

-----------------------------------------------------------------------------
(* Demotion *)

\* The first entry of a list that may be demoted.
Candidate(place) ==
    SelectInSeq(policy.lists[place], LAMBDA e : flags.rollback \/ ~e.migrating)

DemotablePlaces == {k \in {Victims} \cup ({"DRAM"} \X (0 .. ThresholdQueue - 1)) : Candidate(k) # 0}

\* The history entry of a victim has its expiration time as its count, and its
\* count as the mark of a demotion.
Demoted(place, e) ==
    IF place = Victims THEN Move(policy, e.page, History, Entry(e.page, 1, e.exp, e.count # 0, TRUE))
    ELSE Move(policy, e.page, <<"PCM", place[2]>>, [e EXCEPT !.migrating = TRUE])

\* selectDemotionPage finds a page, and the manager starts or rolls back.
DemoteFrom(place) ==
    LET e == policy.lists[place][Candidate(place)] IN
    /\ policy' = IF HasPages(e.page[1]) THEN Demoted(place, e) ELSE Fail(policy, "index")
    /\ left' = left + 1
    /\ moving' = With(moving, e.page, TRUE)

MayDemote ==
    /\ alloc = "DRAM_FIRST" => full
    /\ left <= MaxFree

\* One demotion at a time.
Demote ==
    /\ \A p \in DOMAIN moving : ~moving[p]
    /\ moves < MaxMoves /\ moves' = moves + 1
    /\ MayDemote /\ tries = DemotionAttempts /\ tries' = 0
    /\ \E place \in DemotablePlaces :
           /\ \A other \in DemotablePlaces : place[2] <= other[2]
           /\ DemoteFrom(place)
    /\ UNCHANGED <<alloc, flags, full, frames>>

\* No page is found, or the policy has to be asked again.
DemoteNone ==
    /\ \A p \in DOMAIN moving : ~moving[p]
    /\ MayDemote /\ tries = DemotionAttempts => DemotablePlaces = {}
    /\ tries' = IF ~MayDemote THEN tries ELSE IF tries = DemotionAttempts THEN 0 ELSE tries + 1
    /\ UNCHANGED <<alloc, flags, policy, left, full, moving, frames, moves>>

-----------------------------------------------------------------------------
(* The specification *)

Init ==
    /\ alloc \in Allocs /\ flags \in FlagSets
    /\ policy = [place |-> [p \in {} |-> History], lists |-> [k \in Places |-> <<>>], time |-> 0, failed |-> ""]
    /\ left = DramPages /\ full = FALSE /\ tries = DemotionAttempts
    /\ moving = [p \in {} |-> FALSE] /\ frames = DramPages /\ moves = 0

Next ==
    /\ policy.failed = ""
    /\ \/ \E p \in Pages : Allocate(p) \/ Migrate(p) \/ Done(p)
       \/ Monitor \/ Demote \/ DemoteNone

Spec == Init /\ [][Next]_vars

-----------------------------------------------------------------------------
(* Properties *)

\* Every page is in exactly one list, on the side of the memory it is (to be) in;
\* its entry is marked as migrating exactly while the manager migrates it, so that
\* no call of migrate or done fails, however reports, promotions, demotions and
\* rollbacks come.
PlacesAgree ==
    /\ policy.failed = ""
    /\ OncePlaced(policy.place, policy.lists)
    /\ \A p \in DOMAIN policy.place : EntryOf(policy, p).migrating <=> p \in DOMAIN moving

\* The frames that the policy has left are the manager's free ones and the ones
\* that a demotion or a rollback is about to free.
FramesAgree ==
    /\ left = frames + Cardinality({p \in DOMAIN moving : moving[p]})
    /\ left >= 0 /\ frames >= 0
    /\ alloc = "DRAM_FIRST" /\ ~full => Pcm = {}

\* Whatever is promoted, demoted, rolled back and reported, the policy's books on
\* pages and on frames agree with the manager's.
BooksAgree == PlacesAgree /\ FramesAgree

\* The header says that the policy uses 0 for its only process (Migration.H:58-59).
IndexInRange == policy.failed # "index"

\* A page that is demoted keeps its access frequency (sim.cpp:162: "whether the
\* policy maintains access frequency for evicted pages").
EvictedKeepCount ==
    [][\A p \in DOMAIN policy.place :
           policy'.place[p] = History /\ policy.place[p] = Victims
           => EntryOf(policy', p).count = EntryOf(policy, p).count]_vars

\* The policy keeps to what a placement promises.
P == INSTANCE Placement WITH dram <- Dram, pcm <- Pcm, room <- left
ImplementsPlacement == P!Spec
=============================================================================
