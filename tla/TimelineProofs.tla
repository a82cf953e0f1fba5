--------------------------- MODULE TimelineProofs ---------------------------
(* Reading the timeline page by page, for every page size, every range and   *)
(* every interleaving with the ingestors.                                    *)
EXTENDS Timeline, FiniteSetTheorems, TLAPS

-----------------------------------------------------------------------------
(* The inductive invariant.                                                  *)

\* How many events the pages before the next one hold.
Read == (PageNumber - 1) * PageSize

\* While a walk from the first page goes on, what the sort now puts on the pages
\* already asked for has been received if it was there from the beginning.  An
\* append moves events to higher ranks only, so this survives it.
WalkInv ==
    pc = "walking" /\ first <= 1 /\ ~Malformed =>
        /\ Read <= Len(events)
        /\ \A i \in 1..started :
              i \in Matching /\ Rank(i) < Read
                  => \E p \in 1..(PageNumber - 1) : <<p, i>> \in got

IInv == TypeOK /\ WalkInv /\ NoOmission /\ WalkAnswered

-----------------------------------------------------------------------------
(* Pages and ranks.                                                          *)

\* The page number and the page size are counted from one.
LEMMA PageType ==
    ASSUME TypeOK
    PROVE  /\ PageNumber \in Nat \ {0} /\ PageSize \in Nat \ {0}
           /\ Read \in Nat
<1>1. PageNumber \in Nat \ {0}
  BY DEF TypeOK, PageNumber
<1>2. PageSize \in Nat \ {0}
  BY PageAssumption DEF TypeOK, PageSize
<1>3. Read \in Nat
  <2>1. PageNumber - 1 \in Nat /\ PageSize \in Nat
    BY <1>1, <1>2
  <2>2. \A a, b \in Nat : a * b \in Nat
    OBVIOUS
  <2> QED
    BY <2>1, <2>2 DEF Read
<1> QED
  BY <1>1, <1>2, <1>3

\* Within the timeline the offset of a page does not overflow.
LEMMA OffsetExact ==
    ASSUME TypeOK, Read <= Len(events)
    PROVE  StartOffset = Read
<1>1. Read \in 0..MaxInt
  BY PageType, IntAssumption DEF TypeOK
<1> QED
  BY <1>1, IntAssumption DEF StartOffset, Wrap, Read

\* There are finitely many matches.
LEMMA MatchingFinite ==
    ASSUME TypeOK
    PROVE  IsFiniteSet(Matching) /\ Matching \subseteq 1..Len(events) /\ Total \in Nat
<1>1. Matching \subseteq 1..Len(events)
  BY DEF TypeOK, Matching
<1>2. IsFiniteSet(1..Len(events))
  BY FS_Interval DEF TypeOK
<1>3. IsFiniteSet(Matching)
  BY <1>1, <1>2, FS_Subset
<1> QED
  BY <1>1, <1>3, FS_CardinalityType DEF Total

\* A match has a rank below the total.
LEMMA RankBound ==
    ASSUME TypeOK, NEW i \in Matching
    PROVE  Rank(i) \in Nat /\ Rank(i) < Total
<1> DEFINE B == {j \in Matching : Before(j, i)}
<1>1. i \notin B
  <2>1. events[i] \in Event /\ i \in 1..Len(events)
    BY MatchingFinite DEF TypeOK
  <2>2. events[i].ts \in Int /\ events[i].id \in Int
    BY <2>1, PageAssumption DEF Event
  <2> QED
    BY <2>1, <2>2 DEF Before
<1>2. IsFiniteSet(Matching \ {i}) /\ Cardinality(Matching \ {i}) = Total - 1
  BY MatchingFinite, FS_RemoveElement DEF Total
<1>3. B \in SUBSET (Matching \ {i})
  BY <1>1
<1>4. IsFiniteSet(B) /\ Cardinality(B) <= Cardinality(Matching \ {i})
  BY <1>2, <1>3, FS_Subset
<1>5. Cardinality(B) \in Nat
  BY <1>4, FS_CardinalityType
<1> QED
  BY <1>2, <1>4, <1>5, MatchingFinite DEF Rank

\* The same type in the next state, where an append has changed the ranks.
LEMMA RankType ==
    ASSUME TypeOK', NEW i, i \in Matching'
    PROVE  Rank(i)' \in Nat
<1> DEFINE B == {j \in Matching : Before(j, i)}
<1>1. Matching' \subseteq 1..Len(events') /\ Len(events') \in Nat
  BY DEF Matching, TypeOK
<1>2. IsFiniteSet(1..Len(events'))
  BY <1>1, FS_Interval
<1>3. B' \in SUBSET (1..Len(events'))
  BY <1>1
<1>4. IsFiniteSet(B')
  BY <1>2, <1>3, FS_Subset
<1> QED
  BY <1>4, FS_CardinalityType DEF Rank

\* The total is at most the length of the timeline.
LEMMA TotalBound ==
    ASSUME TypeOK
    PROVE  Total <= Len(events)
<1>1. Len(events) \in Nat
  BY DEF TypeOK
<1>2. IsFiniteSet(1..Len(events)) /\ Cardinality(1..Len(events)) = Len(events)
  <2> DEFINE n == Len(events)
  <2>1. \A m \in Nat : IsFiniteSet(1..m) /\ Cardinality(1..m) = IF 1 > m THEN 0 ELSE m - 1 + 1
    BY FS_Interval
  <2>2. n \in Nat
    BY <1>1
  <2> HIDE DEF n
  <2>3. IsFiniteSet(1..n) /\ Cardinality(1..n) = n
    BY <2>1, <2>2
  <2> QED
    BY <2>3 DEF n
<1>3. Matching \in SUBSET (1..Len(events))
  BY MatchingFinite
<1> QED
  BY <1>2, <1>3, FS_Subset DEF Total

\* Appending keeps the earlier events where they are.
LEMMA AppendKeeps ==
    ASSUME TypeOK, NEW batch \in Seq(Event), AddEvents(batch)
    PROVE  /\ Len(events') = Len(events) + Len(batch)
           /\ \A i \in 1..Len(events) : events'[i] = events[i]
           /\ TypeOK'
<1>1. events \in Seq(Event) /\ events' = events \o batch
  BY DEF AddEvents, TypeOK
<1>2. /\ events' \in Seq(Event)
      /\ Len(events') = Len(events) + Len(batch)
      /\ \A i \in 1..Len(events) : events'[i] = events[i]
  BY <1>1
<1>3. Len(events') <= MaxEvents
  BY <1>2 DEF AddEvents
<1>4. Len(events) \in Nat /\ Len(batch) \in Nat
  BY <1>1
<1>5. TypeOK'
  BY <1>2, <1>3, <1>4 DEF TypeOK, AddEvents, clientVars
<1> QED
  BY <1>2, <1>5

\* Appending moves an event to a higher rank or leaves it at its own.
LEMMA RankGrows ==
    ASSUME TypeOK, NEW batch \in Seq(Event), AddEvents(batch),
           NEW i \in 1..Len(events), i \in Matching'
    PROVE  i \in Matching /\ Rank(i) <= Rank(i)'
<1> DEFINE B == {j \in Matching : Before(j, i)}
<1>1. \A j \in 1..Len(events) : events'[j] = events[j]
  BY AppendKeeps
<1>2. TypeOK' /\ Len(events) <= Len(events')
  BY AppendKeeps DEF TypeOK
<1>3. from' = from /\ to' = to
  BY DEF AddEvents, clientVars
<1>4. i \in Matching
  BY <1>1, <1>3 DEF Matching, TypeOK
<1>5. ASSUME NEW j \in B
      PROVE  j \in B'
  <2>1. j \in 1..Len(events) /\ events'[j] = events[j] /\ events'[i] = events[i]
    BY <1>1, MatchingFinite
  <2>2. j \in DOMAIN events'
    BY <2>1, <1>2 DEF TypeOK
  <2>3. j \in Matching'
    BY <2>1, <2>2, <1>3 DEF Matching
  <2>4. Before(j, i)'
    BY <2>1 DEF Before
  <2> QED
    BY <2>3, <2>4
<1>6. IsFiniteSet(Matching')
  <2>1. Matching' \subseteq 1..Len(events')
    BY <1>2 DEF Matching, TypeOK
  <2>2. IsFiniteSet(1..Len(events'))
    BY <1>2, FS_Interval DEF TypeOK
  <2> QED
    BY <2>1, <2>2, FS_Subset
<1>7. IsFiniteSet(B')
  <2>1. B' \in SUBSET (Matching')
    OBVIOUS
  <2> QED
    BY <2>1, <1>6, FS_Subset
<1>8. Cardinality(B) <= Cardinality(B')
  <2>1. B \in SUBSET (B')
    BY <1>5
  <2> QED
    BY <2>1, <1>7, FS_Subset
<1> QED
  BY <1>4, <1>8 DEF Rank

-----------------------------------------------------------------------------
(* Type correctness.                                                         *)

\* An append is one of a batch of events, as the ingestors make them.
LEMMA Batches ==
    ASSUME NEW e \in Event, NEW f \in Event
    PROVE  <<e>> \in Seq(Event) /\ <<e, f>> \in Seq(Event)
OBVIOUS

LEMMA InitType == Init => TypeOK
<1> SUFFICES ASSUME Init
             PROVE  TypeOK
  OBVIOUS
<1>1. events \in Seq(Event) /\ Len(events) = 0
  BY DEF Init
<1>2. Len(events) <= MaxEvents
  BY <1>1, IntAssumption
<1> QED
  BY <1>1, <1>2 DEF Init, TypeOK, Bounds

LEMMA NextType == TypeOK /\ [Next]_vars => TypeOK'
<1> SUFFICES ASSUME TypeOK, [Next]_vars
             PROVE  TypeOK'
  OBVIOUS
<1>1. ASSUME NEW batch \in Seq(Event), AddEvents(batch)
      PROVE  TypeOK'
  BY <1>1, AppendKeeps
<1>2. ASSUME NEW f \in Bounds, NEW t \in Bounds, NEW s \in Sizes, NEW p \in FirstPages,
             Begin(f, t, s, p)
      PROVE  TypeOK'
  <2>1. s \in Int /\ p \in Int /\ Len(events) \in Nat
    BY PageAssumption DEF TypeOK
  <2>2. got' \subseteq (Nat \ {0}) \X (1..seen')
    BY <1>2, <2>1 DEF Begin, TypeOK
  <2> QED
    BY <1>2, <2>1, <2>2 DEF Begin, TypeOK
<1>3. CASE Reject \/ Drop
  BY <1>3 DEF Reject, Drop, TypeOK
<1>4. CASE Answer
  <2>1. Page \subseteq 1..Len(events) /\ Len(events) \in Nat /\ seen <= Len(events)
    BY MatchingFinite DEF Page, TypeOK
  <2>2. got' \subseteq (Nat \ {0}) \X (1..seen')
    <3>1. {<<PageNumber, i>> : i \in Page} \subseteq (Nat \ {0}) \X (1..Len(events))
      BY <2>1, PageType
    <3>2. got \subseteq (Nat \ {0}) \X (1..Len(events))
      BY <2>1 DEF TypeOK
    <3> QED
      BY <1>4, <3>1, <3>2 DEF Answer
  <2>3. PageNumber + 1 \in Int /\ PageNumber \in Int
    BY PageType
  <2> QED
    BY <1>4, <2>1, <2>2, <2>3 DEF Answer, TypeOK
<1>5. CASE UNCHANGED vars
  BY <1>5 DEF vars, clientVars, TypeOK
<1> QED
  BY <1>1, <1>2, <1>3, <1>4, <1>5, Batches DEF Next

\* What the client holds are pages of the timeline it has read.
THEOREM TypeCorrect == Spec => []TypeOK
BY InitType, NextType, PTL DEF Spec

-----------------------------------------------------------------------------
(* A walk from the first page.                                               *)

LEMMA InitIInv == Init => IInv
BY InitType DEF Init, IInv, WalkInv, NoOmission, WalkAnswered

\* An append does not lose what the walk has read.
LEMMA AppendIInv ==
    ASSUME IInv, NEW batch \in Seq(Event), AddEvents(batch)
    PROVE  IInv'
<1> USE DEF IInv
<1>1. /\ Len(events) <= Len(events')
      /\ \A i \in 1..Len(events) : events'[i] = events[i]
      /\ TypeOK' /\ Len(events) \in Nat /\ Len(events') \in Nat
  BY AppendKeeps DEF TypeOK
<1>2. UNCHANGED clientVars
  BY DEF AddEvents
<1>3. /\ PageNumber' = PageNumber /\ PageSize' = PageSize /\ Read' = Read
      /\ Malformed' = Malformed
  BY <1>2 DEF clientVars, PageNumber, PageSize, Read, Malformed
<1>4. WalkInv'
  <2> SUFFICES ASSUME pc = "walking", first <= 1, ~Malformed
               PROVE  /\ Read <= Len(events')
                      /\ \A i \in 1..started :
                            i \in Matching' /\ Rank(i)' < Read
                                => \E p \in 1..(PageNumber - 1) : <<p, i>> \in got
    BY <1>2, <1>3 DEF WalkInv, clientVars
  <2>1. Read <= Len(events')
    BY <1>1, PageType DEF WalkInv
  <2>2. ASSUME NEW i \in 1..started, i \in Matching', Rank(i)' < Read
        PROVE  \E p \in 1..(PageNumber - 1) : <<p, i>> \in got
    <3>1. i \in 1..Len(events)
      BY <2>2 DEF TypeOK
    <3>2. i \in Matching /\ Rank(i) <= Rank(i)'
      BY <2>2, <3>1, RankGrows
    <3>3. Rank(i) \in Nat /\ Rank(i)' \in Nat
      <4>1. Rank(i) \in Nat
        BY <3>2, RankBound
      <4>2. Rank(i)' \in Nat
        BY <1>1, <2>2, RankType
      <4> QED
        BY <4>1, <4>2
    <3>4. Rank(i) < Read
      BY <2>2, <3>2, <3>3, PageType
    <3> QED
      BY <3>2, <3>4 DEF WalkInv
  <2> QED
    BY <2>1, <2>2
<1>5. NoOmission'
  <2>1. \A i \in 1..started : i \in 1..Len(events)
    BY DEF TypeOK
  <2> QED
    BY <1>1, <1>2, <2>1 DEF NoOmission, clientVars, InRange
<1>6. WalkAnswered'
  BY <1>2 DEF WalkAnswered, clientVars
<1> QED
  BY <1>1, <1>4, <1>5, <1>6

\* The first page begins before every event.
LEMMA BeginIInv ==
    ASSUME IInv, NEW f \in Bounds, NEW t \in Bounds, NEW s \in Sizes,
           NEW p \in FirstPages, Begin(f, t, s, p), TypeOK'
    PROVE  IInv'
<1>1. pc' = "walking" /\ next' = p /\ first' = p
  BY DEF Begin
<1>2. ASSUME first' <= 1
      PROVE  Read' = 0
  <2>1. p <= 1 /\ p \in Int
    BY <1>1, <1>2, PageAssumption
  <2>2. PageNumber' = 1
    BY <1>1, <2>1 DEF PageNumber
  <2>3. PageSize' \in Nat
    BY PageAssumption DEF PageSize, TypeOK
  <2>4. \A x \in Nat : (1 - 1) * x = 0
    OBVIOUS
  <2>5. Read' = (1 - 1) * PageSize'
    BY <2>2 DEF Read
  <2> QED
    BY <2>3, <2>4, <2>5
<1>3. WalkInv'
  <2> SUFFICES ASSUME first' <= 1
               PROVE  /\ Read' <= Len(events')
                      /\ \A i \in 1..started' :
                            i \in Matching' /\ Rank(i)' < Read' => FALSE
    BY DEF WalkInv
  <2>1. Len(events') \in Nat
    BY DEF TypeOK
  <2>2. ASSUME NEW i \in 1..started', i \in Matching'
        PROVE  Rank(i)' \in Nat
    BY <2>2, RankType
  <2> QED
    BY <1>2, <2>1, <2>2
<1> QED
  BY <1>1, <1>3 DEF IInv, NoOmission, WalkAnswered

\* What is not on the page just read is on an earlier one or comes after it.
LEMMA AnswerIInv ==
    ASSUME IInv, Answer, TypeOK'
    PROVE  IInv'
<1> USE DEF IInv
<1>1. /\ events' = events /\ from' = from /\ to' = to /\ size' = size
      /\ first' = first /\ started' = started
      /\ pc = "walking" /\ ~Malformed
      /\ got' = got \cup {<<PageNumber, i>> : i \in Page}
  BY DEF Answer
<1>2. Matching' = Matching /\ PageSize' = PageSize /\ \A i : Rank(i)' = Rank(i)
  BY <1>1 DEF Matching, PageSize, Rank, Before
<1>3. /\ PageNumber \in Nat \ {0} /\ PageSize \in Nat \ {0}
      /\ Read \in Nat /\ Total \in Nat /\ Total <= Len(events)
  BY PageType, MatchingFinite, TotalBound
<1>4. PageNumber * PageSize = Read + PageSize
  <2>1. \A a, b \in Int : a * b = (a - 1) * b + b
    OBVIOUS
  <2> QED
    BY <1>3, <2>1 DEF Read
<1>5. ASSUME first <= 1, NEW i \in 1..started, i \in Matching, Rank(i) < Read + PageSize
      PROVE  \E p \in 1..PageNumber : <<p, i>> \in got'
  <2>1. Rank(i) \in Nat
    BY <1>5, RankBound
  <2>2. CASE Rank(i) < Read
    <3>1. PICK p \in 1..(PageNumber - 1) : <<p, i>> \in got
      BY <1>1, <1>5, <2>2 DEF WalkInv
    <3>2. p \in 1..PageNumber
      BY <1>3
    <3> QED
      BY <1>1, <3>1, <3>2
  <2>3. CASE Read <= Rank(i)
    <3>1. StartOffset = Read
      BY <1>1, <1>5, OffsetExact DEF WalkInv
    <3>2. i \in Page
      BY <1>5, <2>3, <3>1 DEF Page
    <3>3. <<PageNumber, i>> \in got'
      BY <1>1, <3>2
    <3>4. PageNumber \in 1..PageNumber
      BY <1>3
    <3> QED
      BY <3>3, <3>4
  <2> QED
    BY <1>3, <2>1, <2>2, <2>3
<1>6. CASE pc' = "done"
  <2>1. Total <= Read + PageSize /\ next' = PageNumber
    BY <1>1, <1>3, <1>4, <1>6 DEF Answer
  <2>2. ASSUME first <= 1, NEW i \in 1..started, InRange(events[i])
        PROVE  \E p \in 1..PageNumber : <<p, i>> \in got'
    <3>1. i \in 1..Len(events)
      BY DEF TypeOK
    <3>2. events[i].ts \in Int /\ (from = Open \/ from \in Int) /\ (to = Open \/ to \in Int)
      <4>1. events[i] \in Event
        BY <3>1 DEF TypeOK
      <4>2. events[i].ts \in Int
        BY <4>1, PageAssumption DEF Event
      <4>3. from \in Times \cup {Open} /\ to \in Times \cup {Open}
        BY DEF TypeOK, Bounds
      <4> QED
        BY <4>2, <4>3, PageAssumption
    <3>3. i \in Matching
      BY <2>2, <3>1, <3>2 DEF InRange, Matching, TypeOK
    <3>4. Rank(i) < Read + PageSize
      BY <1>3, <2>1, <3>3, RankBound
    <3> QED
      BY <1>5, <2>2, <3>3, <3>4
  <2>3. NoOmission'
    BY <1>1, <2>1, <2>2 DEF NoOmission, InRange
  <2> QED
    BY <1>6, <2>3 DEF WalkInv, WalkAnswered
<1>7. CASE pc' = "walking"
  <2>1. Read + PageSize < Total /\ next' = PageNumber + 1
    BY <1>1, <1>3, <1>4, <1>7 DEF Answer
  <2>2. PageNumber' = PageNumber + 1
    BY <1>3, <2>1 DEF PageNumber
  <2>3. Read' = Read + PageSize
    BY <1>2, <1>3, <1>4, <2>2 DEF Read
  <2>4. Read' <= Len(events')
    BY <1>1, <1>3, <2>1, <2>3 DEF TypeOK
  <2>5. PageNumber' - 1 = PageNumber
    BY <1>3, <2>2
  <2>6. ASSUME first <= 1, NEW i \in 1..started, i \in Matching, Rank(i) < Read'
        PROVE  \E p \in 1..(PageNumber' - 1) : <<p, i>> \in got'
    BY <1>5, <2>3, <2>5, <2>6
  <2>7. WalkInv'
    BY <1>1, <1>2, <2>4, <2>6 DEF WalkInv
  <2> QED
    BY <1>7, <2>7 DEF NoOmission, WalkAnswered
<1> QED
  BY <1>1, <1>6, <1>7 DEF Answer

LEMMA NextIInv == IInv /\ [Next]_vars => IInv'
<1> SUFFICES ASSUME IInv, [Next]_vars
             PROVE  IInv'
  OBVIOUS
<1>1. TypeOK'
  BY NextType DEF IInv
<1>2. CASE Reject
  BY <1>1, <1>2 DEF Reject, IInv, WalkInv, NoOmission, WalkAnswered
<1>3. CASE Drop
  <2>1. first > 1
    <3> SUFFICES ASSUME first <= 1
                 PROVE  FALSE
      BY DEF IInv, TypeOK
    <3>1. StartOffset = Read /\ Read \in Nat
      BY <1>3, OffsetExact, PageType DEF Drop, IInv, WalkInv
    <3> QED
      BY <1>3, <3>1 DEF Drop, Panics
  <2> QED
    BY <1>1, <1>3, <2>1 DEF Drop, IInv, WalkInv, NoOmission, WalkAnswered
<1>4. CASE UNCHANGED vars
  <2>1. UNCHANGED <<events, pc, from, to, size, next, first, got, started, seen>>
    BY <1>4 DEF vars, clientVars
  <2>2. /\ Read' = Read /\ PageNumber' = PageNumber /\ Malformed' = Malformed
        /\ Matching' = Matching /\ \A i : Rank(i)' = Rank(i)
    BY <2>1 DEF Read, PageNumber, PageSize, Malformed, Matching, Rank, Before
  <2> QED
    BY <1>1, <2>1, <2>2 DEF IInv, WalkInv, NoOmission, WalkAnswered, InRange
<1> QED
  BY <1>1, <1>2, <1>3, <1>4, AppendIInv, BeginIInv, AnswerIInv, Batches DEF Next

\* The invariant is inductive.
THEOREM InductiveInvariant == Spec => []IInv
BY InitIInv, NextIInv, PTL DEF Spec

\* A walk over the pages misses no event that was there when it began.
THEOREM WalkComplete == Spec => []NoOmission
<1>1. IInv => NoOmission
  BY DEF IInv
<1> QED
  BY InductiveInvariant, <1>1, PTL

\* A walk over the pages is never dropped.
THEOREM WalkNeverDropped == Spec => []WalkAnswered
<1>1. IInv => WalkAnswered
  BY DEF IInv
<1> QED
  BY InductiveInvariant, <1>1, PTL

-----------------------------------------------------------------------------
(* A walk during which nothing is appended to its range.                     *)

OnPage(a) ==
    /\ a[2] \in Matching
    /\ (a[1] - 1) * PageSize <= Rank(a[2]) /\ Rank(a[2]) < a[1] * PageSize

\* As long as nothing is appended to the range each page holds its own ranks.  Only a walk
\* that begins beyond the end can come to another offset, and it ends with that page.
QuietInv ==
    /\ pc = "idle" => got = {}
    /\ pc = "walking" /\ Quiet(Len(events)) =>
        /\ got = {} \/ Read <= Len(events)
        /\ \A a \in got : a[1] <= PageNumber - 1 /\ OnPage(a)
    /\ ExactWhenQuiet

\* The ranks of an earlier page are lower.
LEMMA PageOrder ==
    ASSUME NEW S \in Nat \ {0}, NEW p \in Nat, NEW r \in Nat, p < r,
           NEW x \in Nat, x < p * S, NEW y \in Nat, (r - 1) * S <= y
    PROVE  x < y
<1>1. \A a \in Nat : (p + a) * S = p * S + a * S /\ a * S \in Nat
  OBVIOUS
<1>2. r - 1 - p \in Nat /\ r - 1 = p + (r - 1 - p)
  OBVIOUS
<1>3. (r - 1) * S = p * S + (r - 1 - p) * S /\ (r - 1 - p) * S \in Nat
  BY <1>1, <1>2
<1>4. p * S \in Nat
  OBVIOUS
<1> QED
  BY <1>3, <1>4

\* A lower rank comes no later in the order.
LEMMA RankOrder ==
    ASSUME TypeOK, NEW i \in Matching, NEW j \in Matching, Rank(i) < Rank(j)
    PROVE  InOrder(events[i], events[j])
<1> DEFINE B(k) == {m \in Matching : Before(m, k)}
<1>1. \A k \in Matching : events[k].ts \in Int /\ events[k].id \in Int
  <2> TAKE k \in Matching
  <2>1. events[k] \in Event
    BY MatchingFinite DEF TypeOK
  <2> QED
    BY <2>1, PageAssumption DEF Event
<1>2. CASE ~InOrder(events[i], events[j])
  <2>1. B(j) \in SUBSET B(i)
    BY <1>1, <1>2 DEF Before, InOrder
  <2>2. IsFiniteSet(B(i))
    <3>1. B(i) \in SUBSET Matching
      OBVIOUS
    <3> QED
      BY <3>1, MatchingFinite, FS_Subset
  <2>3. Cardinality(B(j)) <= Cardinality(B(i))
    BY <2>1, <2>2, FS_Subset
  <2> QED
    BY <2>3, RankBound DEF Rank
<1> QED
  BY <1>1, <1>2

\* What the client holds after a page, when nothing was appended.
LEMMA QuietPage ==
    ASSUME TypeOK, QuietInv, Answer, Quiet(Len(events))
    PROVE  /\ \A a \in got' : a[1] \in Nat \ {0} /\ a[1] <= PageNumber /\ a[2] \in Matching
           /\ Read <= Len(events) => \A a \in got' : OnPage(a)
           /\ ~(Read <= Len(events)) => \A a \in got' : a[1] = PageNumber
<1>1. pc = "walking" /\ got' = got \cup {<<PageNumber, i>> : i \in Page}
  BY DEF Answer
<1>2. PageNumber \in Nat \ {0} /\ PageSize \in Nat \ {0} /\ Read \in Nat
  BY PageType
<1>3. \A a \in got : /\ a[1] \in Nat \ {0} /\ a[1] <= PageNumber - 1 /\ OnPage(a)
  BY <1>1 DEF QuietInv, TypeOK
<1>4. ASSUME NEW a \in got' \ got
      PROVE  /\ a[1] = PageNumber /\ a[2] \in Matching
             /\ Read <= Len(events) => OnPage(a)
  <2>1. PICK i \in Page : a = <<PageNumber, i>>
    BY <1>1, <1>4
  <2>2. i \in Matching /\ StartOffset <= Rank(i) /\ Rank(i) < StartOffset + PageSize
    BY DEF Page
  <2>3. ASSUME Read <= Len(events)
        PROVE  OnPage(a)
    <3>1. StartOffset = Read
      BY <2>3, OffsetExact
    <3>2. PageNumber * PageSize = Read + PageSize
      <4>1. \A b, c \in Int : b * c = (b - 1) * c + c
        OBVIOUS
      <4> QED
        BY <1>2, <4>1 DEF Read
    <3> QED
      BY <2>1, <2>2, <3>1, <3>2 DEF OnPage, Read
  <2> QED
    BY <2>1, <2>2, <2>3
<1>5. \A a \in got' : a[1] \in Nat \ {0} /\ a[1] <= PageNumber /\ a[2] \in Matching
  BY <1>2, <1>3, <1>4 DEF OnPage
<1>6. Read <= Len(events) => \A a \in got' : OnPage(a)
  BY <1>3, <1>4
<1>7. ~(Read <= Len(events)) => \A a \in got' : a[1] = PageNumber
  BY <1>1, <1>4 DEF QuietInv
<1> QED
  BY <1>5, <1>6, <1>7

LEMMA AnswerQuiet ==
    ASSUME TypeOK, QuietInv, Answer, NoOmission'
    PROVE  QuietInv'
<1>1. /\ events' = events /\ from' = from /\ to' = to /\ size' = size
      /\ started' = started /\ seen' = Len(events) /\ pc' \in {"walking", "done"}
  BY DEF Answer
<1>2. Matching' = Matching /\ PageSize' = PageSize /\ \A i : Rank(i)' = Rank(i)
  BY <1>1 DEF Matching, PageSize, Rank, Before
<1>3. /\ PageNumber \in Nat \ {0} /\ PageSize \in Nat \ {0}
      /\ Read \in Nat /\ Total \in Nat /\ Total <= Len(events) /\ Len(events) \in Nat
  BY PageType, MatchingFinite, TotalBound DEF TypeOK
<1>4. PageNumber * PageSize = Read + PageSize
  <2>1. \A a, b \in Int : a * b = (a - 1) * b + b
    OBVIOUS
  <2> QED
    BY <1>3, <2>1 DEF Read
<1>5. CASE ~Quiet(Len(events))
  <2>1. ~Quiet(seen)' /\ ~Quiet(Len(events))'
    BY <1>1, <1>5 DEF Quiet, InRange
  <2> QED
    BY <1>1, <2>1 DEF QuietInv, ExactWhenQuiet
<1>6. CASE Quiet(Len(events)) /\ pc' = "walking"
  <2>1. Read + PageSize < Total /\ next' = PageNumber + 1
    BY <1>3, <1>4, <1>6 DEF Answer
  <2>2. PageNumber' = PageNumber + 1
    BY <1>3, <2>1 DEF PageNumber
  <2>3. Read' = Read + PageSize
    BY <1>2, <1>3, <1>4, <2>2 DEF Read
  <2>4. Read' <= Len(events') /\ Read <= Len(events)
    BY <1>1, <1>3, <2>1, <2>3
  <2>5. \A a \in got' : a[1] <= PageNumber' - 1 /\ OnPage(a)'
    BY <1>2, <1>3, <1>6, <2>2, <2>4, QuietPage DEF OnPage
  <2> QED
    BY <1>6, <2>4, <2>5 DEF QuietInv, ExactWhenQuiet
<1>7. CASE Quiet(Len(events)) /\ pc' = "done"
  <2>1. ASSUME NEW a \in got', NEW b \in got', a[1] < b[1]
        PROVE  a[2] # b[2] /\ InOrder(events[a[2]], events[b[2]])
    <3>1. /\ a[1] \in Nat /\ b[1] \in Nat /\ a[2] \in Matching /\ b[2] \in Matching
          /\ OnPage(a) /\ OnPage(b)
      BY <1>3, <1>7, <2>1, QuietPage
    <3>2. Rank(a[2]) \in Nat /\ Rank(b[2]) \in Nat
      BY <3>1, RankBound
    <3>3. Rank(a[2]) < a[1] * PageSize /\ (b[1] - 1) * PageSize <= Rank(b[2])
      BY <3>1 DEF OnPage
    <3>4. Rank(a[2]) < Rank(b[2])
      BY <1>3, <2>1, <3>1, <3>2, <3>3, PageOrder
    <3> QED
      BY <3>1, <3>2, <3>4, RankOrder
  <2>2. \A a, b \in got' : a[2] = b[2] => a[1] = b[1]
    <3>1. \A a \in got' : a[1] \in Nat
      BY <1>7, QuietPage
    <3> QED
      BY <2>1, <3>1
  <2>3. ASSUME first' <= 1, NEW i \in 1..seen', InRange(events[i])'
        PROVE  \E p \in 1..next' : <<p, i>> \in got'
    <3>1. i \in 1..started'
      BY <1>1, <1>3, <1>7, <2>3 DEF Quiet, InRange, TypeOK
    <3> QED
      BY <1>7, <2>3, <3>1 DEF NoOmission
  <2>4. ExactWhenQuiet'
    BY <1>1, <2>1, <2>2, <2>3 DEF ExactWhenQuiet
  <2> QED
    BY <1>7, <2>4 DEF QuietInv
<1> QED
  BY <1>1, <1>5, <1>6, <1>7

\* What is appended out of the range changes no rank.
LEMMA QuietRanks ==
    ASSUME TypeOK, NEW batch \in Seq(Event), AddEvents(batch), Quiet(Len(events))'
    PROVE  /\ Quiet(Len(events))
           /\ Matching' = Matching /\ \A i \in Matching : Rank(i)' = Rank(i)
<1>1. /\ Len(events') = Len(events) + Len(batch) /\ Len(batch) \in Nat /\ Len(events) \in Nat
      /\ \A i \in 1..Len(events) : events'[i] = events[i]
      /\ from' = from /\ to' = to /\ started' = started
      /\ started \in Nat /\ started <= Len(events)
      /\ events \in Seq(Event) /\ events' \in Seq(Event)
  BY AppendKeeps DEF AddEvents, clientVars, TypeOK
<1>2. \A i \in (started + 1)..Len(events') : ~InRange(events'[i])
  BY <1>1 DEF Quiet, InRange
<1>3. Quiet(Len(events))
  BY <1>1, <1>2 DEF Quiet
<1>4. \A i \in 1..Len(events') : events'[i].ts \in Int
  <2>1. \A i \in 1..Len(events') : events'[i] \in Event
    BY <1>1
  <2> QED
    BY <2>1, PageAssumption DEF Event
<1>5. (from = Open \/ from \in Int) /\ (to = Open \/ to \in Int)
  <2>1. from \in Times \cup {Open} /\ to \in Times \cup {Open}
    BY DEF TypeOK, Bounds
  <2> QED
    BY <2>1, PageAssumption
<1>6. DOMAIN events = 1..Len(events) /\ DOMAIN events' = 1..Len(events')
  BY <1>1
<1>7. Matching' = Matching
  <2>1. ASSUME NEW i \in 1..Len(events')
        PROVE  i \in Matching' <=> InRange(events'[i])
    BY <1>1, <1>4, <1>5, <1>6 DEF Matching, InRange
  <2>2. ASSUME NEW i \in 1..Len(events)
        PROVE  i \in Matching <=> InRange(events[i])
    <3>1. events[i].ts \in Int
      BY <1>1, <1>4
    <3> QED
      BY <1>5, <1>6, <3>1 DEF Matching, InRange
  <2>3. Matching' \subseteq 1..Len(events') /\ Matching \subseteq 1..Len(events)
    BY <1>6 DEF Matching
  <2>4. \A i \in 1..Len(events') : i \in 1..Len(events) \/ i \in (started + 1)..Len(events')
    BY <1>1
  <2>5. 1..Len(events) \subseteq 1..Len(events')
    BY <1>1
  <2> QED
    BY <1>1, <1>2, <2>1, <2>2, <2>3, <2>4, <2>5
<1>8. ASSUME NEW i \in Matching
      PROVE  Rank(i)' = Rank(i)
  <2>1. Matching \subseteq 1..Len(events)
    BY MatchingFinite
  <2>2. {j \in Matching : Before(j, i)}' = {j \in Matching : Before(j, i)}
    BY <1>1, <1>7, <2>1 DEF Before
  <2> QED
    BY <2>2 DEF Rank
<1> QED
  BY <1>3, <1>7, <1>8

LEMMA AppendQuiet ==
    ASSUME TypeOK, QuietInv, NEW batch \in Seq(Event), AddEvents(batch)
    PROVE  QuietInv'
<1>1. /\ Len(events') = Len(events) + Len(batch)
      /\ \A i \in 1..Len(events) : events'[i] = events[i]
      /\ UNCHANGED clientVars
  BY AppendKeeps DEF AddEvents
<1>2. /\ \A a \in got : a[2] \in 1..Len(events)
      /\ 1..seen \subseteq 1..Len(events) /\ (started + 1)..seen \subseteq 1..Len(events)
  BY DEF TypeOK
<1>3. ExactWhenQuiet'
  <2>1. Quiet(seen)' <=> Quiet(seen)
    BY <1>1, <1>2 DEF Quiet, InRange, clientVars
  <2>2. \A i \in 1..seen : InRange(events[i])' <=> InRange(events[i])
    BY <1>1, <1>2 DEF InRange, clientVars
  <2> QED
    BY <1>1, <1>2, <2>1, <2>2 DEF QuietInv, ExactWhenQuiet, clientVars
<1>4. ASSUME pc = "walking", Quiet(Len(events))'
      PROVE  /\ got = {} \/ Read' <= Len(events')
             /\ \A a \in got : a[1] <= PageNumber' - 1 /\ OnPage(a)'
  <2>1. /\ Quiet(Len(events)) /\ Matching' = Matching
        /\ \A i \in Matching : Rank(i)' = Rank(i)
    BY <1>4, QuietRanks
  <2>2. Read' = Read /\ PageNumber' = PageNumber /\ PageSize' = PageSize
    BY <1>1 DEF Read, PageNumber, PageSize, clientVars
  <2>3. Len(events) \in Nat /\ Len(batch) \in Nat /\ Read \in Nat
    BY PageType DEF TypeOK
  <2>4. got = {} \/ Read' <= Len(events')
    BY <1>1, <1>4, <2>1, <2>2, <2>3 DEF QuietInv
  <2>5. ASSUME NEW a \in got
        PROVE  a[1] <= PageNumber' - 1 /\ OnPage(a)'
    <3>1. a[1] <= PageNumber - 1 /\ OnPage(a)
      BY <1>4, <2>1 DEF QuietInv
    <3>2. Rank(a[2])' = Rank(a[2])
      BY <2>1, <3>1 DEF OnPage
    <3> QED
      BY <2>1, <2>2, <3>1, <3>2 DEF OnPage
  <2> QED
    BY <2>4, <2>5
<1> QED
  BY <1>1, <1>3, <1>4 DEF QuietInv, clientVars

LEMMA NextQuiet == IInv /\ IInv' /\ QuietInv /\ [Next]_vars => QuietInv'
<1> SUFFICES ASSUME TypeOK, NoOmission', QuietInv, [Next]_vars
             PROVE  QuietInv'
  BY DEF IInv
<1>1. ASSUME NEW batch \in Seq(Event), AddEvents(batch)
      PROVE  QuietInv'
  BY <1>1, AppendQuiet
<1>2. ASSUME NEW f \in Bounds, NEW t \in Bounds, NEW s \in Sizes, NEW p \in FirstPages,
             Begin(f, t, s, p)
      PROVE  QuietInv'
  BY <1>2 DEF Begin, QuietInv, ExactWhenQuiet
<1>3. CASE Reject \/ Drop
  BY <1>3 DEF Reject, Drop, QuietInv, ExactWhenQuiet
<1>4. CASE Answer
  BY <1>4, AnswerQuiet
<1>5. CASE UNCHANGED vars
  <2>1. UNCHANGED <<events, pc, from, to, size, next, first, got, started, seen>>
    BY <1>5 DEF vars, clientVars
  <2>2. /\ Read' = Read /\ PageNumber' = PageNumber /\ PageSize' = PageSize
        /\ Matching' = Matching /\ \A i : Rank(i)' = Rank(i)
    BY <2>1 DEF Read, PageNumber, PageSize, Matching, Rank, Before
  <2> QED
    BY <2>1, <2>2 DEF QuietInv, OnPage, ExactWhenQuiet, Quiet, InRange
<1> QED
  BY <1>1, <1>2, <1>3, <1>4, <1>5, Batches DEF Next

\* While what is appended is out of the range of the walk the pages have no event in common
\* and are in the documented order, from whatever page the walk begins; one from the first
\* page finds every event of its range on one of them.
THEOREM QuietWalkExact == Spec => []ExactWhenQuiet
<1>1. Init => QuietInv
  BY DEF Init, QuietInv, ExactWhenQuiet
<1>2. QuietInv => ExactWhenQuiet
  BY DEF QuietInv
<1> QED
  BY <1>1, <1>2, NextQuiet, InductiveInvariant, PTL DEF Spec

=============================================================================
