--------------------------- MODULE MetricsIngestor ---------------------------
(***************************************************************************)
(* The CloudWatch metrics ingestion loop, internal/ingestion/              *)
(* metrics_timeline.go.  Unlike the log loop it has no watermark: each     *)
(* poll reads the last Window again, and seenIDs alone keeps a breach from  *)
(* being reported twice.  The end of the window is read by the collector   *)
(* before its request, the time kept in seenIDs after the answer.          *)
(*                                                                         *)
(* A point is one value of one metric of one resource at one time, which   *)
(* is what metricEventID hashes: a revised value is another point.         *)
(***************************************************************************)
EXTENDS Integers

CONSTANTS Points,            \* the metric points
          Window,            \* RuntimeConfig.Window()
          MinSeenRetention,  \* minSeenRetention
          Interval,          \* RuntimeConfig.PollEvery(), the period of the ticker
          Timeout,           \* RuntimeConfig.Timeout(), how long Collect may take
          MaxTime,           \* bound: the clock stops there
          MaxBack,           \* the clock is never behind its highest reading by more
          MaxBacks,          \* bound: how often the clock is stepped back
          MaxLate            \* bound: how old a point is when it becomes visible

\* metrics_timeline.go, pruneSeen: how long an identity is remembered.
Retention == IF Window * 6 < MinSeenRetention THEN MinSeenRetention ELSE Window * 6

ASSUME ConfigAssumption ==
    /\ Window \in Nat \ {0} /\ MinSeenRetention \in Nat
    /\ Interval \in Nat \ {0} /\ Timeout \in Nat \ {0}
    /\ MaxTime \in Nat /\ MaxBacks \in Nat /\ MaxLate \in Nat

\* A request and two corrections of the clock are short against the retention.
ASSUME ClockAssumption == MaxBack \in Nat /\ 2 * MaxBack + Timeout + Window <= Retention

VARIABLES
    clock,        \* what now() returns
    hi,           \* history: the highest reading of the clock
    backs,        \* how often the clock was stepped back
    visible,      \* the points the service can return
    breaching,    \* those whose value is at the warning threshold or above
    ts,           \* the timestamp of each visible point
    since,        \* history: the highest reading when it became visible
    followed,     \* history: those that became visible after a first complete answer
    pc,           \* where the goroutine of Run is
    cancelled,    \* the context of Run is cancelled
    end,          \* endTime of Collect
    offered,      \* the points that were visible when Collect was called
    seenIDs,      \* the field of MetricsTimelineIngestor
    batch,        \* locals events and addedPoints of ingestOnce
    timeline,     \* how often each point was appended to the timeline
    sink,         \* how often each point was appended to the signal store
    lastOK,       \* history: endTime of the last Collect with a complete answer
    gap           \* history: the longest time between two of those, as
                  \* far as it matters: all that exceed the window are Window + 1

clockVars == <<clock, hi, backs>>
sourceVars == <<visible, breaching, ts, since, followed>>
outVars == <<timeline, sink>>
history == <<lastOK, gap>>
vars == <<clockVars, sourceVars, pc, cancelled, end, offered, seenIDs, batch, outVars, history>>

\* No Collect has had a complete answer yet.
Never == -1

-----------------------------------------------------------------------------
(* The environment.                                                         *)

\* A poll follows the one before it within Interval, its context ends a Collect
\* within Timeout, and appending takes no time on this scale.
Tick ==
    /\ clock < MaxTime
    /\ pc = "idle" => clock < end + Interval
    /\ pc = "collecting" => clock < end + Timeout
    /\ pc \notin {"publish", "sink"}
    /\ clock' = clock + 1
    /\ hi' = IF clock' > hi THEN clock' ELSE hi
    /\ UNCHANGED <<backs, sourceVars, pc, cancelled, end, offered, seenIDs, batch, outVars,
                   history>>

\* now().UTC() strips the monotonic reading, so a correction of the wall clock shows.
StepBack ==
    /\ backs < MaxBacks
    /\ \E t \in 0..(clock - 1) : hi - t <= MaxBack /\ clock' = t
    /\ backs' = backs + 1
    /\ UNCHANGED <<hi, sourceVars, pc, cancelled, end, offered, seenIDs, batch, outVars, history>>

\* A point stamped t becomes visible, with a value that breaches or not.
Appear(p, t) ==
    /\ p \notin visible
    /\ visible' = visible \cup {p}
    /\ breaching' \in {breaching, breaching \cup {p}}
    /\ ts' = [ts EXCEPT ![p] = t]
    /\ since' = [since EXCEPT ![p] = hi]
    /\ followed' = IF lastOK # Never THEN followed \cup {p} ELSE followed
    /\ UNCHANGED <<clockVars, pc, cancelled, end, offered, seenIDs, batch, outVars, history>>

Cancel ==
    /\ ~cancelled
    /\ cancelled' = TRUE
    /\ UNCHANGED <<clockVars, sourceVars, pc, end, offered, seenIDs, batch, outVars, history>>

-----------------------------------------------------------------------------
(* The goroutine of Run.                                                    *)

Init ==
    /\ clock = 0 /\ hi = 0 /\ backs = 0
    /\ visible = {} /\ breaching = {} /\ followed = {}
    /\ ts = [p \in Points |-> 0] /\ since = [p \in Points |-> 0]
    /\ pc = "first" /\ cancelled = FALSE
    /\ end = 0 /\ offered = {} /\ batch = {}
    /\ seenIDs = [p \in {} |-> 0]
    /\ timeline = [p \in Points |-> 0] /\ sink = [p \in Points |-> 0]
    /\ lastOK = Never /\ gap = 0

\* runTick at once, then on every tick; Collect reads the end of its window.
StartPoll ==
    /\ pc \in {"first", "idle"}
    /\ pc' = "collecting"
    /\ end' = clock
    /\ offered' = visible
    /\ UNCHANGED <<clockVars, sourceVars, cancelled, seenIDs, batch, outVars, history>>

\* Mutant of InWindow: the window is read from the last success on.
InWindowSince(S) == {p \in S : end - Window <= ts[p] /\ lastOK <= ts[p] /\ ts[p] < end}

\* What Collect may return: points stamped within the window; all that were visible
\* at the call, unless the answer of GetMetricData is truncated, which the collector
\* does not see (it reads neither NextToken nor StatusCode), and any that became
\* visible since.
InWindow(S) == {p \in S : end - Window <= ts[p] /\ ts[p] < end}
Collected == SUBSET InWindow(visible)
Complete(S) == InWindow(offered) \subseteq S

PollDone ==
    /\ pc' = "idle"
    /\ offered' = {} /\ batch' = {}

\* Throttling, an API error, the request timeout or the cancelled context.
CollectFail ==
    /\ pc = "collecting"
    /\ PollDone
    /\ UNCHANGED <<clockVars, sourceVars, cancelled, end, seenIDs, outVars, history>>

\* Mutant of Emitted: every point is reported.
EmittedAll(S) == S

\* metricSeverity: a point below the warning threshold is left out.
Emitted(S) == S \cap breaching

\* Mutant of Remembered: the retention is one window.
RememberedWindow(now) == {p \in DOMAIN seenIDs : ~(seenIDs[p] < now - Window)}

\* pruneSeen(now): the identities that are still remembered.
Remembered(now) == {p \in DOMAIN seenIDs : ~(seenIDs[p] < now - Retention)}

Longer(a, b) == IF b <= a THEN a ELSE IF b > Window THEN Window + 1 ELSE b

\* Old identities are forgotten, the breaches that remain new are kept.
CollectOK(S) ==
    LET kept == Remembered(clock)
        new == Emitted(S) \ kept
    IN  /\ pc = "collecting"
        /\ seenIDs' = [p \in kept \cup new |-> IF p \in new THEN clock ELSE seenIDs[p]]
        /\ lastOK' = IF Complete(S) THEN end ELSE lastOK
        /\ gap' = IF lastOK = Never \/ ~Complete(S) THEN gap ELSE Longer(gap, end - lastOK)
        /\ \/ new = {} /\ PollDone
           \/ /\ new # {}
              /\ pc' = "publish" /\ batch' = new
              /\ UNCHANGED offered
        /\ UNCHANGED <<clockVars, sourceVars, cancelled, end, outVars>>

Plus(f, S) == [p \in Points |-> IF p \in S THEN f[p] + 1 ELSE f[p]]

\* timeline.AddEvents(events...)
AddEvents ==
    /\ pc = "publish"
    /\ timeline' = Plus(timeline, batch)
    /\ pc' = "sink"
    /\ UNCHANGED <<clockVars, sourceVars, cancelled, end, offered, seenIDs, batch, sink, history>>

\* Mutant of AddMetricPoints: the sink is given every breach of the poll.
AddCollectedPoints ==
    /\ pc = "sink"
    /\ sink' = Plus(sink, Emitted(InWindow(offered)))
    /\ PollDone
    /\ UNCHANGED <<clockVars, sourceVars, cancelled, end, seenIDs, timeline, history>>

\* metricSink.AddMetricPoints(addedPoints...)
AddMetricPoints ==
    /\ pc = "sink"
    /\ sink' = Plus(sink, batch)
    /\ PollDone
    /\ UNCHANGED <<clockVars, sourceVars, cancelled, end, seenIDs, timeline, history>>

\* The select of Run sees the cancelled context.
Stop ==
    /\ pc = "idle" /\ cancelled
    /\ pc' = "stopped"
    /\ UNCHANGED <<clockVars, sourceVars, cancelled, end, offered, seenIDs, batch, outVars,
                   history>>

Environment ==
    \/ Tick
    \/ StepBack
    \/ \E p \in Points, t \in 0..MaxTime : hi - MaxLate <= t /\ t <= hi /\ Appear(p, t)
    \/ Cancel

Ingestor ==
    \/ StartPoll
    \/ CollectFail
    \/ \E S \in Collected : CollectOK(S)
    \/ AddEvents
    \/ AddMetricPoints
    \/ Stop

Next == Environment \/ Ingestor

Spec == Init /\ [][Next]_vars

-----------------------------------------------------------------------------
(* Properties.                                                              *)

PCs == {"first", "idle", "collecting", "publish", "sink", "stopped"}

\* Every variable has its type; seenIDs maps identities to times of the clock.
TypeOK ==
    /\ clock \in Nat /\ hi \in Nat /\ backs \in Nat
    /\ visible \subseteq Points /\ breaching \subseteq visible /\ followed \subseteq visible
    /\ ts \in [Points -> Nat] /\ since \in [Points -> Nat]
    /\ pc \in PCs /\ cancelled \in BOOLEAN
    /\ end \in Nat
    /\ offered \subseteq visible /\ batch \subseteq breaching
    /\ DOMAIN seenIDs \subseteq breaching
    /\ seenIDs \in [DOMAIN seenIDs -> Nat]
    /\ timeline \in [Points -> Nat] /\ sink \in [Points -> Nat]
    /\ lastOK \in Nat \cup {Never} /\ gap \in 0..(Window + 1)

\* A breach is reported once, although every poll reads the last window again and
\* forgets identities: none is forgotten while a window still reaches back to it.
NoDuplicateBreach == \A p \in Points : timeline[p] <= 1 /\ sink[p] <= 1

\* The loop implements the abstract feed that publishes no signal twice: each batch
\* is made of breaches that are new, and reaches the signal store unchanged before
\* the next one.
AsFeed == INSTANCE Feed WITH Signals <- Points, AtMostOnce <- TRUE, source <- breaching,
                             pending <- IF pc = "sink" THEN batch ELSE {}
ImplementsFeed == AsFeed!Spec

Reported(p) == timeline[p] > 0 \/ (pc = "publish" /\ p \in batch)

\* A late breach is reported as long as its delay and the time between complete
\* answers fit into the window together: polls that fail, and answers that are
\* truncated and taken for complete ones, cost a breach only beyond that.
LateBreachReported ==
    \A p \in followed \cap breaching :
        /\ since[p] < lastOK
        /\ since[p] + gap <= ts[p] + Window
        => Reported(p)

=============================================================================
