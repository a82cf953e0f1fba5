------------------------------ MODULE Timeline ------------------------------
(***************************************************************************)
(* The incident timeline: the in-memory service of                          *)
(* internal/analyzer/timeline/service.go, its HTTP handler, and a client    *)
(* that reads page after page while the ingestors append events.            *)
(*                                                                         *)
(* AddEvents holds the lock, QueryTimeline copies the matching events under *)
(* the read lock and works on its copy, so each is one step.                *)
(***************************************************************************)
EXTENDS Integers, Sequences, FiniteSets

CONSTANTS Times, Ids,        \* timestamps and identities of events
          Open,              \* the zero time.Time: that side of the range is open
          DefaultPageSize,   \* the page size when none is asked for, 50 in the code
          MaxPageSize,       \* the largest page, 200 in the code
          MaxInt,            \* the largest int
          Sizes,             \* values of page_size the client sends
          FirstPages,        \* values of page the client begins with
          MaxEvents          \* bound: the length of the timeline

ASSUME PageAssumption ==
    /\ Times \subseteq Int /\ Ids \subseteq Int /\ Open \notin Int
    /\ DefaultPageSize \in Nat \ {0} /\ MaxPageSize \in Nat \ {0}
    /\ DefaultPageSize <= MaxPageSize
    /\ Sizes \subseteq Int
    /\ FirstPages \subseteq Int

\* Slices are indexed by int.
ASSUME IntAssumption == MaxEvents \in Nat /\ MaxInt \in Nat /\ MaxEvents < MaxInt

Event == [ts : Times, id : Ids]

Bounds == Times \cup {Open}

VARIABLES
    events,    \* InMemoryService.events
    pc,        \* the client: idle, walking, done, rejected (400), dropped (no answer)
    from, to,  \* start and end of its request
    size,      \* page_size of its request
    next,      \* page of its next request
    first,     \* history: page of its first request
    got,       \* pairs of the page and the position in events of what it received
    started,   \* history: how many events there were when the walk began
    seen       \* history: how many there were when the last page was read

clientVars == <<pc, from, to, size, next, first, got, started, seen>>
vars == <<events, clientVars>>

-----------------------------------------------------------------------------
(* The service.                                                             *)

\* Mutant of AddEvents: the slice is overwritten from its beginning.
AddEventsOver(batch) ==
    /\ Len(events) + Len(batch) <= MaxEvents
    /\ events' = batch
    /\ UNCHANGED clientVars

\* AddEvents(events...): one batch of an ingestor.
AddEvents(batch) ==
    /\ Len(events) + Len(batch) <= MaxEvents
    /\ events' = events \o batch
    /\ UNCHANGED clientVars

\* Two's complement.
Wrap(x) ==
    IF x \in (-MaxInt - 1)..MaxInt THEN x
    ELSE ((x + MaxInt + 1) % (2 * MaxInt + 2)) - MaxInt - 1

\* A request the service refuses: start must be before end.
Reversed == from # Open /\ to # Open /\ from > to

\* parseIntQuery refuses a negative page or page size.
Malformed == next < 0 \/ size < 0

\* Mutant of PageNumber: the page is taken as it comes.
PageAsked == next

PageNumber == IF next <= 0 THEN 1 ELSE next

PageSize ==
    IF size <= 0 THEN DefaultPageSize
    ELSE IF size > MaxPageSize THEN MaxPageSize
    ELSE size

\* The positions of the events in the range, both ends included.
Matching ==
    {i \in DOMAIN events :
        /\ from = Open \/ from <= events[i].ts
        /\ to = Open \/ events[i].ts <= to}

\* Mutant of Before: the oldest event comes first.
OldestFirst(i, j) ==
    \/ events[i].ts < events[j].ts
    \/ events[i].ts = events[j].ts /\ events[i].id < events[j].id
    \/ events[i] = events[j] /\ i < j

\* The order of SortFunc: newest first, ties by id.  Copies of one event are
\* taken in the order they were added; nothing tells them apart.
Before(i, j) ==
    \/ events[i].ts > events[j].ts
    \/ events[i].ts = events[j].ts /\ events[i].id < events[j].id
    \/ events[i] = events[j] /\ i < j

\* How many of the matching events the sort puts before i.
Rank(i) == Cardinality({j \in Matching : Before(j, i)})

Total == Cardinality(Matching)

\* Mutant of StartOffset: pages are counted from zero.
StartOffsetFromZero == Wrap(PageNumber * PageSize)

StartOffset == Wrap((PageNumber - 1) * PageSize)

\* The slice of the sorted copy that is the page; a negative index panics.
Panics == StartOffset < 0
Page == {i \in Matching : StartOffset <= Rank(i) /\ Rank(i) < StartOffset + PageSize}

-----------------------------------------------------------------------------
(* The client: it asks for page after page until it has been told of no     *)
(* more events than it has asked for.                                       *)

Init ==
    /\ events = <<>>
    /\ pc = "idle"
    /\ from = Open /\ to = Open /\ size = 0 /\ next = 0 /\ first = 0
    /\ got = {}
    /\ started = 0 /\ seen = 0

Begin(f, t, s, p) ==
    /\ pc = "idle"
    /\ pc' = "walking"
    /\ from' = f /\ to' = t /\ size' = s /\ next' = p /\ first' = p
    /\ started' = Len(events)
    /\ seen' = Len(events)
    /\ UNCHANGED <<events, got>>

\* 400 Bad Request.
Reject ==
    /\ pc = "walking"
    /\ Malformed \/ Reversed
    /\ pc' = "rejected"
    /\ UNCHANGED <<events, from, to, size, next, first, got, started, seen>>

\* net/http recovers the panic of a handler and closes the connection.
Drop ==
    /\ pc = "walking"
    /\ ~Malformed /\ ~Reversed /\ Panics
    /\ pc' = "dropped"
    /\ UNCHANGED <<events, from, to, size, next, first, got, started, seen>>

\* 200 OK with the page, its number and size, and the total.
Answer ==
    /\ pc = "walking"
    /\ ~Malformed /\ ~Reversed /\ ~Panics
    /\ got' = got \cup {<<PageNumber, i>> : i \in Page}
    /\ seen' = Len(events)
    /\ \/ /\ PageNumber * PageSize >= Total
          /\ pc' = "done"
          /\ next' = PageNumber
       \/ /\ PageNumber * PageSize < Total
          /\ pc' = pc
          /\ next' = PageNumber + 1
    /\ UNCHANGED <<events, from, to, size, first, started>>

\* Batches of one or two events stand for every batch.
Next ==
    \/ \E e \in Event : AddEvents(<<e>>)
    \/ \E e, f \in Event : AddEvents(<<e, f>>)
    \/ \E f, t \in Bounds, s \in Sizes, p \in FirstPages : Begin(f, t, s, p)
    \/ Reject
    \/ Drop
    \/ Answer

Spec == Init /\ [][Next]_vars

-----------------------------------------------------------------------------
(* Properties.                                                              *)

\* Every variable has its type, and the walk knows of no event beyond the
\* timeline it last read.
TypeOK ==
    /\ events \in Seq(Event) /\ Len(events) <= MaxEvents
    /\ pc \in {"idle", "walking", "done", "rejected", "dropped"}
    /\ from \in Bounds /\ to \in Bounds
    /\ size \in Int /\ next \in Int /\ first \in Int
    /\ started \in Nat /\ seen \in Nat
    /\ started <= seen /\ seen <= Len(events)
    /\ got \subseteq (Nat \ {0}) \X (1..seen)

\* What docs/api/incident-timeline.md calls a match: both bounds are inclusive.
InRange(e) == (from = Open \/ e.ts >= from) /\ (to = Open \/ e.ts <= to)

\* A client that walks the pages from the first misses no event that was in
\* the timeline when it began, however many are appended between its requests.
NoOmission ==
    pc = "done" /\ first <= 1 =>
        \A i \in 1..started :
            InRange(events[i]) => \E p \in 1..next : <<p, i>> \in got

\* None of the events up to the n-th that were added since the walk began is in the range.
Quiet(n) == \A i \in (started + 1)..n : ~InRange(events[i])

\* The order of docs/api/incident-timeline.md: newest first, ties by id.
InOrder(e, f) == e.ts > f.ts \/ (e.ts = f.ts /\ e.id <= f.id)

\* Each request sorts a copy of its own.  As long as what is appended between them is out
\* of the range of the walk, no event is on two pages, the pages are in the documented
\* order, and in a walk from the first page every event of the range is on one of them.
ExactWhenQuiet ==
    pc = "done" /\ Quiet(seen) =>
        /\ \A a, b \in got :
            /\ a[2] = b[2] => a[1] = b[1]
            /\ a[1] < b[1] => InOrder(events[a[2]], events[b[2]])
        /\ first <= 1 => \A i \in 1..seen :
            InRange(events[i]) => \E p \in 1..next : <<p, i>> \in got

\* A client that walks the pages from the first is never dropped: the offsets it
\* comes to stay within the timeline, far from the largest int.
WalkAnswered == pc = "dropped" => first > 1

\* docs/api/incident-timeline.md takes every page number from one on: a request with such
\* a page number, a page size of at least one and a range that is not reversed is
\* answered.
EveryPageAnswered == pc # "dropped"

=============================================================================
