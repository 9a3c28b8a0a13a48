----------------------------- MODULE OldPolicies -----------------------------
(***************************************************************************)
(* The earlier migration policies (the Old... classes of                   *)
(* src/Migration.cpp), which choose the page to migrate themselves.  The   *)
(* manager (external here) allocates and monitors a page when it is        *)
(* accessed, and asks for a page to migrate whenever no migration is under *)
(* way.  A policy demotes only when its share of DRAM is used up.          *)
(*                                                                         *)
(* Where the code dereferences an end iterator, fails an assertion or      *)
(* names a page of the wrong process, "defect" says so and the policy      *)
(* stops: what the program does from then on is not defined.               *)
(***************************************************************************)
EXTENDS PolicyQueues

CONSTANTS
    DramPages,
    Policies,        \* of "multi_queue", "first_touch", "double_clock", "two_lru", "offline"
    Allocs,          \* of "DRAM_FIRST", "PCM_ONLY"
    FlagSets,        \* settings of multi_queue: second, aging, history, pending
    HitLimit,        \* of two_lru, 1000 in the code
    Trace,           \* what offline reads: the counts of the pages in the intervals
    Weights,         \* of the coming intervals
    MetricThreshold,
    MaxTime          \* bound: monitored accesses and intervals

ASSUME OldPoliciesAssumption ==
    /\ DramPages \in Nat \ {0} /\ HitLimit \in Nat /\ MetricThreshold \in Nat /\ MaxTime \in Nat
    /\ FlagSets \subseteq [second : BOOLEAN, aging : BOOLEAN, history : BOOLEAN, pending : BOOLEAN]
    /\ Weights \in Seq(Nat) /\ Trace \in [Pages -> Seq(Nat)]

VARIABLES
    policy, alloc, flags,    \* the settings
    s    \* the pages' place and the lists; left, full; atEnd (the clock's hand is the
         \* end of its list), last (lastPcmAccess), pending, time, interval; defect

vars == <<policy, alloc, flags, s>>

\* An entry has the process that the code writes in it, and what its policy counts.
Entry(p, exp, count, mark) == [page |-> p, pid |-> p[1], exp |-> exp, count |-> count, mark |-> mark]
Fresh(p) == Entry(p, 0, 0, FALSE)

Nobody == <<>>
InDram == <<"DRAM", 0>>
Inactive == <<"PCM", 0>>    \* also the only list of PCM pages
Active == <<"PCM", 1>>

\* The page gets a new place, in a list that is given.
Put(w, p, place, list) ==
    [w EXCEPT !.lists = [[@ EXCEPT ![w.place[p]] = Off(@, p)] EXCEPT ![place] = list],
              !.place[p] = place]

First(e, list) == <<e>> \o list
Stop(w, what) == [w EXCEPT !.defect = what]

\* The page that the code finds by an entry is the entry's.
FindsPage(e) == HasPages(e.pid) /\ e.pid = e.page[1]
IfFound(e, w, then) == IF FindsPage(e) THEN then ELSE Stop(w, "page")

-----------------------------------------------------------------------------
(* Offline: the pages by what the trace says of the coming intervals *)

Metric(p, from) ==
    FoldLeftDomain(LAMBDA sum, i : sum + Weights[i] * (IF from + i \in DOMAIN Trace[p] THEN Trace[p][from + i] ELSE 0),
                   0, Weights)

\* DRAM pages come by rising metric, PCM pages by falling, equal ones as they came.
Insert(list, e, type) ==
    LET n == Cardinality({i \in DOMAIN list : IF type = "DRAM" THEN list[i].count <= e.count
                                              ELSE list[i].count >= e.count})
    IN InsertAt(list, n + 1, e)

Ranked(w, p, place, count) ==
    Put(w, p, place, Insert(Off(w.lists[place], p), [Fresh(p) EXCEPT !.count = count], place[1]))

\* A new interval begins: all pages are ranked again, in the order of their addresses.
Rank(w, interval) ==
    LET from(w1, p) == Ranked(w1, p, w1.place[p], Metric(p, interval))
        pages == SetToSortSeq(DOMAIN w.place, LAMBDA p, q : p[2] < q[2])
        cleared == [w EXCEPT !.interval = interval, !.lists = [k \in Places |-> <<>>]]
    IN IF interval = w.interval THEN w ELSE FoldLeft(from, cleared, pages)

OfflineChoice(old) ==
    LET pcm == old.lists[Inactive]
        dram == old.lists[InDram]
    IN IF pcm = <<>> THEN old
       ELSE IF Head(pcm).count = 0 THEN old
       ELSE IF old.left > 0
       THEN [Ranked(old, Head(pcm).page, InDram, Head(pcm).count) EXCEPT !.left = @ - 1]
       ELSE IF dram = <<>> THEN old
       ELSE IF Head(pcm).count <= Head(dram).count * MetricThreshold THEN old
       ELSE [Ranked(old, Head(dram).page, Inactive, Head(dram).count) EXCEPT !.left = @ + 1]

-----------------------------------------------------------------------------
(* Multi-queue *)

\* The entry of a page that leaves the queues: the time of its expiration becomes
\* its count, and its count the mark of a demotion.
AsideEntry(p, type, exp, count) == Entry(p, Number(type), exp, count # 0)

Remembered(w, e) ==
    IF w.place[e.page] = History /\ ~flags.history THEN 0
    ELSE IF flags.aging THEN Aged(e, w.time) ELSE e.count

\* The page is counted; a page in a queue rises by one queue at most.
Count(w, p) ==
    LET e == EntryOf(w, p)
        place == w.place[p]
        count == IF place[2] < 0 THEN Remembered(w, e) ELSE e.count + 1
        rises == place[2] \in 0 .. NumQueues - 2 /\ count >= Threshold(place[2])
        queue == IF place[2] < 0 THEN QueueOf(count) ELSE IF rises THEN place[2] + 1 ELSE place[2]
        w1 == Move(w, p, <<place[1], queue>>, [Entry(p, w.time + Lifetime, count, FALSE) EXCEPT !.pid = e.pid])
    IN IF flags.pending /\ rises /\ queue = ThresholdQueue THEN [w1 EXCEPT !.pending = Append(@, p)] ELSE w1

Expire(w, place) ==
    LET e == Head(w.lists[place])
        count == IF flags.aging THEN e.count \div 2 ELSE e.count
        out == place[2] = 0 \/ (flags.second /\ e.mark)
    IN IF w.lists[place] = <<>> \/ w.time <= e.exp \/ w.defect # "" THEN w
       ELSE IfFound(e, w,
                    IF out THEN Move(w, e.page, Aside(place[1]), AsideEntry(e.page, place[1], w.time + Lifetime, count))
                    ELSE Move(w, e.page, <<place[1], place[2] - 1>>, Entry(e.page, w.time + Lifetime, count, TRUE)))

AllQueues == [i \in 1 .. 2 * NumQueues |->
                 IF i <= NumQueues THEN <<"DRAM", i - 1>> ELSE <<"PCM", i - NumQueues - 1>>]

\* Victims first, then the first page of the lowest queue below the threshold.
QueueDemotion(w) ==
    LET queues == {q \in 0 .. ThresholdQueue - 1 : w.lists[<<"DRAM", q>>] # <<>>}
        q == CHOOSE x \in queues : \A y \in queues : x <= y
        v == Head(w.lists[Victims])
        e == Head(w.lists[<<"DRAM", q>>])
    IN IF w.lists[Victims] # <<>>
       THEN IfFound(v, w, [Move(w, v.page, History, AsideEntry(v.page, "PCM", v.exp, v.count)) EXCEPT !.left = @ + 1])
       ELSE IF queues = {} THEN w
       ELSE IfFound(e, w, [Move(w, e.page, <<"PCM", q>>, e) EXCEPT !.left = @ + 1])

\* The pending pages that are still promising, or the first of the highest queue.
QueuePromotion(w) ==
    LET waiting == SelectSeq(w.pending, LAMBDA p : w.place[p][1] = "PCM" /\ w.place[p][2] >= ThresholdQueue)
        queues == {q \in ThresholdQueue .. NumQueues - 1 : w.lists[<<"PCM", q>>] # <<>>}
        q == CHOOSE x \in queues : \A y \in queues : x >= y
        w1 == [w EXCEPT !.pending = IF waiting = <<>> THEN <<>> ELSE Tail(waiting)]
        e == IF flags.pending THEN EntryOf(w, Head(waiting)) ELSE Head(w.lists[<<"PCM", q>>])
    IN IF flags.pending /\ waiting = <<>> THEN w1
       ELSE IF ~flags.pending /\ queues = {} THEN w
       ELSE IfFound(e, w, [Move(IF flags.pending THEN w1 ELSE w, e.page, <<"DRAM", w.place[e.page][2]>>, e)
                              EXCEPT !.left = @ - 1])

-----------------------------------------------------------------------------
(* First touch and double clock: the list of DRAM pages from the hand on *)

\* The hand passes the marked pages, which lose their mark.
AtHand(list) ==
    LET unmarked == {i \in DOMAIN list : ~list[i].mark}
        n == IF unmarked = {} THEN 1 ELSE CHOOSE i \in unmarked : \A j \in unmarked : i <= j
        passed == [i \in DOMAIN list |-> [list[i] EXCEPT !.mark = @ /\ unmarked # {} /\ i > n]]
    IN SubSeq(passed, n, Len(list)) \o SubSeq(passed, 1, n - 1)

\* Mutant: the hand is also lost at the last of two pages.
LosesHandEarly(list) == Len(list) <= 2

\* Double clock writes the address of a demoted page for its process, in the entry of
\* a list that is not read.
Demoted(p) == IF policy = "double_clock" THEN [Fresh(p) EXCEPT !.pid = p[2]] ELSE Fresh(p)

\* No page is left for the hand.
LosesHand(list) == Len(list) = 1

ClockDemotion(old) ==
    LET list == AtHand(old.lists[InDram])
        e == Head(list)
        w == [old EXCEPT !.lists[InDram] = list]
    IN IF old.atEnd THEN Stop(old, "end")
       ELSE IfFound(e, old, [Move(w, e.page, Inactive, Demoted(e.page))
                                EXCEPT !.left = @ + 1, !.last = Nobody, !.atEnd = LosesHand(list)])

\* Mutant: first touch may promote the page again.
ToDramAgain(w, p) == [Move(w, p, InDram, Fresh(p)) EXCEPT !.left = @ - 1]

\* The page comes last before the hand, which does not find it when it is the first.
ToDram(w, p) == [Move(w, p, InDram, Fresh(p)) EXCEPT !.left = @ - 1, !.last = Nobody]

FirstTouchPromotion(w) == IF w.last = Nobody THEN w ELSE ToDram(w, w.last)

\* The first marked page of the active list is promoted; unmarked ones go to the
\* inactive list, and the others lose their mark.
DoubleClockPromotion(w) ==
    LET active == w.lists[Active]
        found == SelectInSeq(active, LAMBDA e : e.mark)
        out == SelectSeq(active, LAMBDA e : ~e.mark)
        w1 == FoldLeft(LAMBDA acc, e : Move(acc, e.page, Inactive, Fresh(e.page)), w, out)
        w2 == ToDram(w1, active[found].page)
    IN IF \E i \in DOMAIN active : ~HasPages(active[i].pid) THEN Stop(w, "page")
       ELSE IF found = 0 THEN w1
       ELSE [w2 EXCEPT !.lists[Active] = [i \in DOMAIN @ |-> [@[i] EXCEPT !.mark = FALSE]]]

-----------------------------------------------------------------------------
(* Two LRU lists *)

\* The entry of a demoted page has process 0.
LruDemotion(w) ==
    LET e == Last(w.lists[InDram]) IN
    IF w.lists[InDram] = <<>> THEN Stop(w, "empty")
    ELSE IfFound(e, w, [Put(w, e.page, Inactive, First([Fresh(e.page) EXCEPT !.pid = 0], w.lists[Inactive]))
                           EXCEPT !.left = @ + 1])

LruPromotion(w) ==
    LET e == Head(w.lists[Inactive]) IN
    IF w.lists[Inactive] = <<>> THEN Stop(w, "empty")
    ELSE IF e.count <= HitLimit THEN w
    ELSE IfFound(e, w, [Put(w, e.page, InDram, First(Fresh(e.page), w.lists[InDram])) EXCEPT !.left = @ - 1])

-----------------------------------------------------------------------------
(* What the manager calls *)

FirstPlace(type) ==
    IF policy = "multi_queue" THEN IF type = "DRAM" THEN <<"DRAM", ThresholdQueue>> ELSE History
    ELSE IF type = "DRAM" THEN InDram ELSE Inactive

FirstEntry(p, type) ==
    IF policy = "multi_queue" /\ type = "DRAM" THEN Entry(p, s.time + Lifetime, Threshold(ThresholdQueue - 1), FALSE)
    ELSE IF policy = "offline" THEN [Fresh(p) EXCEPT !.count = Metric(p, s.interval)]
    ELSE Fresh(p)

\* allocate: DRAM until it has been full.
Allocate(p) ==
    LET type == IF alloc = "DRAM_FIRST" /\ ~s.full THEN "DRAM" ELSE "PCM"
        place == FirstPlace(type)
        e == FirstEntry(p, type)
        list == s.lists[place]
        n == IF type = "DRAM" THEN 1 ELSE 0
    IN /\ p \notin DOMAIN s.place
       /\ policy = "offline" => p[1] = 0    \* it serves one process
       /\ s' = IF n = 1 /\ s.left <= 0 THEN Stop(s, "left")
               ELSE [s EXCEPT !.place = With(@, p, place),
                              !.lists[place] = IF policy = "offline" THEN Insert(list, e, type)
                                               ELSE IF policy = "two_lru" THEN First(e, list)
                                               ELSE Append(list, e),
                              !.left = @ - n, !.full = @ \/ (n = 1 /\ s.left = 1),
                              !.atEnd = @ /\ n = 0]
       /\ UNCHANGED <<policy, alloc, flags>>

Marked(w, p) == [w EXCEPT !.lists[w.place[p]] = [i \in DOMAIN @ |-> [@[i] EXCEPT !.mark = @ \/ w.lists[w.place[p]][i].page = p]]]

\* A PCM page has no entry: its mark is written at the end of the list, which is
\* harmless or not.
FirstTouched(p) ==
    IF s.place[p] = InDram THEN {Marked(s, p)}
    ELSE {[s EXCEPT !.last = p], Stop(s, "memory")}

DoubleClockTouched(p) ==
    IF s.place[p] = Inactive THEN Move(s, p, Active, [Fresh(p) EXCEPT !.mark = TRUE])
    ELSE Marked(s, p)

\* The page is first in its list. (Hits beyond the limit are not told apart.)
LruTouched(p) ==
    LET e == EntryOf(s, p)
        hits == IF e.count > HitLimit THEN e.count ELSE e.count + 1
    IN Put(s, p, s.place[p], First([e EXCEPT !.count = hits], Off(s.lists[s.place[p]], p)))

\* monitor.  The filter of multi_queue only leaves out calls.
Monitor(p) ==
    /\ p \in DOMAIN s.place
    /\ \/ /\ policy = "multi_queue"
          /\ \E time \in s.time + 1 .. MaxTime :
                s' = FoldLeft(Expire, Count([s EXCEPT !.time = time], p), AllQueues)
       \/ policy = "first_touch" /\ s' \in FirstTouched(p)
       \/ policy = "double_clock" /\ s' = DoubleClockTouched(p)
       \/ policy = "two_lru" /\ s' = LruTouched(p)
    /\ UNCHANGED <<policy, alloc, flags>>

\* migrate and selectPage
Choose ==
    /\ alloc = "DRAM_FIRST" => s.full
    /\ \/ /\ policy = "offline"
          /\ \E interval \in s.interval .. MaxTime : interval > 0 /\ s' = OfflineChoice(Rank(s, interval))
       \/ policy = "multi_queue" /\ s.left <= 0 /\ s' = QueueDemotion(s)
       \/ policy = "multi_queue" /\ s.left > 0 /\ s' = QueuePromotion(s)
       \/ policy \in {"first_touch", "double_clock"} /\ s.left <= 0 /\ s' = ClockDemotion(s)
       \/ policy = "first_touch" /\ s.left > 0 /\ s' = FirstTouchPromotion(s)
       \/ policy = "double_clock" /\ s.left > 0 /\ s' = DoubleClockPromotion(s)
       \/ policy = "two_lru" /\ s.left <= 0 /\ s' = LruDemotion(s)
       \/ policy = "two_lru" /\ s.left > 0 /\ s' = LruPromotion(s)
    /\ UNCHANGED <<policy, alloc, flags>>

Init ==
    /\ policy \in Policies /\ alloc \in Allocs
    /\ flags \in FlagSets /\ (policy # "multi_queue" => flags = CHOOSE f \in FlagSets : TRUE)
    /\ s = [place |-> [p \in {} |-> Inactive], lists |-> [k \in Places |-> <<>>],
            left |-> DramPages, full |-> FALSE, atEnd |-> TRUE, last |-> Nobody, pending |-> <<>>,
            time |-> 0, interval |-> 0, defect |-> ""]

Next ==
    /\ s.defect = ""
    /\ Choose \/ \E p \in Pages : Allocate(p) \/ Monitor(p)

Spec == Init /\ [][Next]_vars

-----------------------------------------------------------------------------
(* Properties *)

\* However accesses, expirations, promotions and demotions come, every page is once
\* in the list of its place, the pages in DRAM are the frames given out, and the page
\* that first touch will promote is in PCM.
PlacesAgree ==
    /\ OncePlaced(s.place, s.lists)
    /\ s.left + Cardinality(In("DRAM", s.place)) = DramPages
    /\ s.left >= 0
    /\ s.last # Nobody => s.place[s.last] = Inactive

\* What goes wrong, and in which settings only: the hand of a clock is lost when the
\* list has been empty, which takes a share of one frame or pages that are never
\* allocated in DRAM; the two lists lose the process of a page that was demoted; and
\* they expect a page in PCM, which is missing when none is allocated there but
\* promoted.  Multi-queue and offline always find the page they choose.
DefectsAreConfined ==
    /\ s.defect = "end" => policy \in {"first_touch", "double_clock"} /\ (alloc = "PCM_ONLY" \/ DramPages = 1)
    /\ s.defect = "memory" => policy = "first_touch"
    /\ s.defect = "page" => policy = "two_lru" /\ \E p \in Pages : p[1] # 0
    /\ s.defect = "empty" => policy = "two_lru" /\ alloc = "PCM_ONLY"
    /\ s.defect # "left"

\* The policies keep to what a placement promises.
P == INSTANCE Placement WITH MaxFree <- 0, dram <- In("DRAM", s.place), pcm <- In("PCM", s.place), room <- s.left
ImplementsPlacement == P!Spec
=============================================================================
