---------------------------- MODULE PolicyQueues ----------------------------
(***************************************************************************)
(* The lists of the migration policies (src/Migration.cpp): a page of a    *)
(* process is in one list, its place <<memory, queue>>.  Queue -1 is the   *)
(* list of the victims, all in DRAM, and -2 the history, all in PCM.  The  *)
(* policies' state is a record w with the pages' place and the lists.      *)
(***************************************************************************)
EXTENDS Integers, Sequences, FiniteSets, SequencesExt

CONSTANTS
    Pages,            \* <<process, address>>
    NumPids,          \* the processes that the policy is for, as it has been told
    NumQueues, ThresholdQueue, Lifetime

ASSUME QueuesAssumption ==
    /\ Pages \subseteq Nat \X Nat /\ NumPids \in Nat \ {0}
    /\ NumQueues \in Nat \ {0} /\ ThresholdQueue \in 1 .. NumQueues - 1 /\ Lifetime \in Nat \ {0}

Types == {"DRAM", "PCM"}
Queues == 0 .. NumQueues - 1
Victims == <<"DRAM", -1>>
History == <<"PCM", -2>>
Places == (Types \X Queues) \cup {Victims, History}

\* Mutant: an expired page is a victim, wherever it is.
AsideVictims(type) == Victims

\* The lists that an expired page goes to (the type's number is 0 or 1).
Aside(type) == IF type = "DRAM" THEN Victims ELSE History
Number(type) == IF type = "DRAM" THEN 0 ELSE 1

\* The pages of an only process are at 0, whatever process it is.
HasPages(pid) == pid < NumPids

\* The last queue has no threshold: a count beyond the others' is put in queue 0.
Threshold(q) == 2 ^ (q + 1)
QueueOf(count) ==
    LET fits == {q \in 0 .. NumQueues - 2 : count < Threshold(q)}
    IN IF fits = {} THEN 0 ELSE CHOOSE q \in fits : \A r \in fits : q <= r

\* Halved for every lifetime since the expiration; the difference is unsigned, so
\* that nothing is left of a count before its expiration.
Aged(entry, time) == IF time < entry.exp THEN 0 ELSE entry.count \div (2 ^ ((time - entry.exp) \div Lifetime))

With(f, x, v) == [y \in DOMAIN f \cup {x} |-> IF y = x THEN v ELSE f[y]]
Index(list, p) == SelectInSeq(list, LAMBDA e : e.page = p)
Off(list, p) == IF Index(list, p) = 0 THEN list ELSE RemoveAt(list, Index(list, p))
EntryOf(w, p) == LET list == w.lists[w.place[p]] IN list[Index(list, p)]

\* The page is new and gets an entry at the end of a list.
Add(w, p, place, entry) == [w EXCEPT !.place = With(@, p, place), !.lists[place] = Append(@, entry)]

\* The page gets a new entry at the end of a list.
Move(w, p, place, entry) ==
    LET rest == [w.lists EXCEPT ![w.place[p]] = Off(@, p)]
    IN [w EXCEPT !.lists = [rest EXCEPT ![place] = Append(@, entry)], !.place[p] = place]

\* Every page is in its list, once, and nothing else is.
OncePlaced(place, lists) ==
    /\ \A p \in DOMAIN place : \E i \in DOMAIN lists[place[p]] : lists[place[p]][i].page = p
    /\ \A k \in DOMAIN lists : \A i \in DOMAIN lists[k] :
           LET p == lists[k][i].page IN
           /\ p \in DOMAIN place /\ place[p] = k
           /\ \A j \in DOMAIN lists[k] : lists[k][j].page = p => i = j

In(type, place) == {p \in DOMAIN place : place[p][1] = type}
=============================================================================
