---------------------------- MODULE LogsIngestor ----------------------------
(***************************************************************************)
(* The CloudWatch Logs ingestion loop, internal/ingestion/logs_timeline.go. *)
(* One goroutine polls a window of the log source, drops the records whose  *)
(* identity it remembers in seenIDs, appends the others to the timeline and *)
(* then to the log sink.  Around it: the log source, where records become   *)
(* visible with any delay, and the wall clock, which may be stepped back.   *)
(*                                                                         *)
(* Time is counted in the milliseconds of the FilterLogEvents requests.     *)
(***************************************************************************)
EXTENDS Integers

CONSTANTS Records,           \* the log records, one per event identity
          Window,            \* RuntimeConfig.Window()
          MinSeenRetention,  \* minSeenRetention
          Interval,          \* RuntimeConfig.PollEvery(), the period of the ticker
          Timeout,           \* RuntimeConfig.Timeout(), how long Collect may take
          MaxTime,           \* bound: the clock stops there
          MaxBack,           \* the clock is never behind its highest reading by more
          MaxBacks,          \* bound: how often the clock is stepped back
          MaxSkew            \* bound: how far a timestamp is off when the record appears

\* logs_timeline.go, pruneSeen: how long an identity is remembered.
Retention == IF Window * 6 < MinSeenRetention THEN MinSeenRetention ELSE Window * 6

ASSUME ConfigAssumption ==
    /\ Window \in Nat \ {0}
    /\ MinSeenRetention \in Nat
    /\ Interval \in Nat \ {0} /\ Timeout \in Nat \ {0}
    /\ MaxTime \in Nat
    /\ MaxBacks \in Nat
    /\ MaxSkew \in Nat

\* A correction of the clock is small against the retention (30 minutes at least).
ASSUME ClockAssumption == MaxBack \in Nat /\ MaxBack + Window <= Retention

\* The zero time.Time: no poll has succeeded yet.
ZeroTime == -1

VARIABLES
    clock,        \* what now() returns
    hi,           \* history: the highest reading of the clock
    backs,        \* how often the clock was stepped back
    visible,      \* the records the source can return
    ts,           \* the timestamp of each visible record
    punctual,     \* history: the records that became visible no later than stamped
    pc,           \* where the goroutine of Run is
    cancelled,    \* the context of Run is cancelled
    start, end,   \* locals of ingestOnce: the window of the poll
    offered,      \* the records that were visible when Collect was called
    lastEnd, seenIDs,  \* the fields of LogsTimelineIngestor
    batch,        \* locals events and addedRecords of ingestOnce
    timeline,     \* how often each record was appended to the timeline
    sink,         \* how often each record was appended to the log sink
    coveredFrom,  \* history: the start of the first successful window
    maxEnd        \* history: the highest end of a successful window

clockVars == <<clock, hi, backs>>
sourceVars == <<visible, ts, punctual>>
pollVars == <<start, end, offered, batch>>
dedupVars == <<lastEnd, seenIDs, coveredFrom, maxEnd>>
outVars == <<timeline, sink>>
vars == <<clockVars, sourceVars, pc, cancelled, pollVars, dedupVars, outVars>>

-----------------------------------------------------------------------------
(* The environment: the clock, the source, the owner of the context.        *)

\* A poll follows the one before it within Interval, its context ends a Collect
\* within Timeout, and appending takes no time on this scale.
Tick ==
    /\ clock < MaxTime
    /\ pc = "idle" => clock < end + Interval
    /\ pc = "collecting" => clock < end + Timeout
    /\ pc \notin {"publish", "sink"}
    /\ clock' = clock + 1
    /\ hi' = IF clock' > hi THEN clock' ELSE hi
    /\ UNCHANGED <<backs, sourceVars, pc, cancelled, pollVars, dedupVars, outVars>>

\* now().UTC() strips the monotonic reading, so a correction of the wall clock shows.
StepBack ==
    /\ backs < MaxBacks
    /\ \E t \in 0..(clock - 1) :
          /\ hi - t <= MaxBack
          /\ clock' = t
    /\ backs' = backs + 1
    /\ UNCHANGED <<hi, sourceVars, pc, cancelled, pollVars, dedupVars, outVars>>

\* A record stamped t becomes visible: late when t is in the past.
Appear(r, t) ==
    /\ r \notin visible
    /\ visible' = visible \cup {r}
    /\ ts' = [ts EXCEPT ![r] = t]
    /\ punctual' = IF t >= hi THEN punctual \cup {r} ELSE punctual
    /\ UNCHANGED <<clockVars, pc, cancelled, pollVars, dedupVars, outVars>>

Cancel ==
    /\ ~cancelled
    /\ cancelled' = TRUE
    /\ UNCHANGED <<clockVars, sourceVars, pc, pollVars, dedupVars, outVars>>

-----------------------------------------------------------------------------
(* The goroutine of Run.                                                    *)

Init ==
    /\ clock = 0 /\ hi = 0 /\ backs = 0
    /\ visible = {} /\ punctual = {}
    /\ ts = [r \in Records |-> 0]
    /\ pc = "first"
    /\ cancelled = FALSE
    /\ start = 0 /\ end = 0 /\ offered = {} /\ batch = {}
    /\ lastEnd = ZeroTime
    /\ seenIDs = [r \in {} |-> 0]
    /\ coveredFrom = 0 /\ maxEnd = ZeroTime
    /\ timeline = [r \in Records |-> 0]
    /\ sink = [r \in Records |-> 0]

\* Mutant of WindowStart: the next window starts after the watermark.
WindowStartAfter ==
    IF lastEnd = ZeroTime \/ ~(lastEnd < clock) THEN clock - Window ELSE lastEnd + 1

\* The window that a poll begun now asks for.
WindowStart ==
    IF lastEnd = ZeroTime \/ ~(lastEnd < clock) THEN clock - Window ELSE lastEnd

\* runTick at once, then on every tick; ingestOnce fixes its window and calls Collect.
StartPoll ==
    /\ pc \in {"first", "idle"}
    /\ pc' = "collecting"
    /\ start' = WindowStart
    /\ end' = clock
    /\ offered' = visible
    /\ UNCHANGED <<clockVars, sourceVars, cancelled, batch, dedupVars, outVars>>

\* What a complete Collect may return: of the records stamped within the closed
\* window, all that were visible at the call and any that became visible since.
InWindow(S) == {r \in S : start <= ts[r] /\ ts[r] <= end}
Collected == {S \in SUBSET InWindow(visible) : InWindow(offered) \subseteq S}

\* The poll is over and its locals are gone; end stays as the time of the poll,
\* which the ticker counts from.
PollDone ==
    /\ pc' = "idle"
    /\ end' = end
    /\ start' = 0 /\ offered' = {} /\ batch' = {}

\* Mutant of CollectFail: Run returns when a poll fails.
CollectFailReturns ==
    /\ pc = "collecting"
    /\ pc' = "stopped"
    /\ UNCHANGED <<clockVars, sourceVars, cancelled, pollVars, dedupVars, outVars>>

\* An API error, throttling, the request timeout or the cancelled context.
CollectFail ==
    /\ pc = "collecting"
    /\ PollDone
    /\ UNCHANGED <<clockVars, sourceVars, cancelled, dedupVars, outVars>>

\* Mutants of Remembered: an identity seen a retention ago is gone; none ever goes.
RememberedShorter(now) == {r \in DOMAIN seenIDs : seenIDs[r] > now - Retention}
RememberedForever(now) == DOMAIN seenIDs

\* pruneSeen(now): the identities that are still remembered.
Remembered(now) == {r \in DOMAIN seenIDs : ~(seenIDs[r] < now - Retention)}

\* The watermark moves, old identities are forgotten, the rest is deduplicated.
CollectOK(S) ==
    LET kept == Remembered(end)
        new == S \ kept
    IN  /\ pc = "collecting"
        /\ lastEnd' = end
        /\ seenIDs' = [r \in kept \cup new |-> IF r \in new THEN end ELSE seenIDs[r]]
        /\ coveredFrom' = IF lastEnd = ZeroTime THEN start ELSE coveredFrom
        /\ maxEnd' = IF end > maxEnd THEN end ELSE maxEnd
        /\ \/ new = {} /\ PollDone
           \/ /\ new # {}
              /\ pc' = "publish"
              /\ batch' = new
              /\ UNCHANGED <<start, end, offered>>
        /\ UNCHANGED <<clockVars, sourceVars, cancelled, outVars>>

\* Mutant of Plus: only the new records are left.
PlusAlone(f, S) == [r \in S |-> f[r] + 1]

Plus(f, S) == [r \in Records |-> IF r \in S THEN f[r] + 1 ELSE f[r]]

\* timeline.AddEvents(events...)
AddEvents ==
    /\ pc = "publish"
    /\ timeline' = Plus(timeline, batch)
    /\ pc' = "sink"
    /\ UNCHANGED <<clockVars, sourceVars, cancelled, pollVars, dedupVars, sink>>

\* Mutant of AddLogRecords: the sink is given every record of the poll.
AddCollectedRecords ==
    /\ pc = "sink"
    /\ sink' = Plus(sink, InWindow(offered))
    /\ PollDone
    /\ UNCHANGED <<clockVars, sourceVars, cancelled, dedupVars, timeline>>

\* logSink.AddLogRecords(addedRecords...)
AddLogRecords ==
    /\ pc = "sink"
    /\ sink' = Plus(sink, batch)
    /\ PollDone
    /\ UNCHANGED <<clockVars, sourceVars, cancelled, dedupVars, timeline>>

\* Mutant of Stop: the context is looked at once, before the loop.
StopBeforeLoop ==
    /\ pc = "first"
    /\ cancelled
    /\ pc' = "stopped"
    /\ UNCHANGED <<clockVars, sourceVars, cancelled, pollVars, dedupVars, outVars>>

\* The select of Run sees the cancelled context; with a tick pending as well it
\* picks either.
Stop ==
    /\ pc = "idle"
    /\ cancelled
    /\ pc' = "stopped"
    /\ UNCHANGED <<clockVars, sourceVars, cancelled, pollVars, dedupVars, outVars>>

Environment ==
    \/ Tick
    \/ StepBack
    \/ \E r \in Records, t \in 0..MaxTime :
          hi - MaxSkew <= t /\ t <= hi + MaxSkew /\ Appear(r, t)
    \/ Cancel

Ingestor ==
    \/ StartPoll
    \/ CollectFail
    \/ \E S \in Collected : CollectOK(S)
    \/ AddEvents
    \/ AddLogRecords
    \/ Stop

Next == Environment \/ Ingestor

Spec == Init /\ [][Next]_vars

(* The ticker fires, Collect ends by its timeout at the latest and does not *)
(* fail for ever, straight-line code runs on, and a select that finds the   *)
(* context done again and again picks it in the end.                        *)
Fairness ==
    /\ WF_vars(Tick)
    /\ WF_vars(StartPoll)
    /\ WF_vars(CollectFail \/ \E S \in Collected : CollectOK(S))
    /\ SF_vars(\E S \in Collected : CollectOK(S))
    /\ WF_vars(AddEvents)
    /\ WF_vars(AddLogRecords)
    /\ SF_vars(Stop)

FairSpec == Spec /\ Fairness

-----------------------------------------------------------------------------
(* Properties.                                                              *)

PCs == {"first", "idle", "collecting", "publish", "sink", "stopped"}

\* Every variable has its type; seenIDs maps identities to the end of a poll.
TypeOK ==
    /\ clock \in Nat /\ hi \in Nat /\ backs \in Nat
    /\ visible \subseteq Records /\ punctual \subseteq visible
    /\ ts \in [Records -> Nat]
    /\ pc \in PCs
    /\ cancelled \in BOOLEAN
    /\ start \in Int /\ end \in Nat
    /\ offered \subseteq visible /\ batch \subseteq visible
    /\ lastEnd \in Nat \cup {ZeroTime} /\ maxEnd \in Nat \cup {ZeroTime}
    /\ DOMAIN seenIDs \subseteq visible
    /\ seenIDs \in [DOMAIN seenIDs -> Nat]
    /\ coveredFrom \in Int
    /\ timeline \in [Records -> Nat]
    /\ sink \in [Records -> Nat]

\* The record is in the timeline, or in the batch about to be appended to it.
Delivered(r) == timeline[r] > 0 \/ (pc = "publish" /\ r \in batch)

\* No gap between the windows: once the watermark has passed the timestamp of
\* a record that was visible in time, the record has been delivered, whatever
\* polls failed in between and however the clock was corrected.
PunctualRecordsCovered ==
    \A r \in punctual :
        lastEnd # ZeroTime /\ coveredFrom <= ts[r] /\ ts[r] < lastEnd => Delivered(r)

\* Forgetting an identity is safe: a record is appended to the timeline a
\* second time only by a poll whose window is longer than the retention.
NoDuplicateWithinRetention ==
    [][\A r \in Records :
          timeline[r] > 0 /\ timeline'[r] > timeline[r] => end - start > Retention]_vars

\* The log sink lags behind the timeline by the batch in flight and by nothing
\* else, so a correlation query never sees a log record without its event.
SinkFollowsTimeline ==
    \A r \in Records :
        timeline[r] = IF pc = "sink" /\ r \in batch THEN sink[r] + 1 ELSE sink[r]

\* The loop implements the abstract feed: whatever polls fail, batches of visible
\* records are published one at a time, and each reaches the sink unchanged before
\* the next one, rereads after an outage included.
AsFeed == INSTANCE Feed WITH Signals <- Records, AtMostOnce <- FALSE, source <- visible,
                             pending <- IF pc = "sink" THEN batch ELSE {}
ImplementsFeed == AsFeed!Spec

\* seenIDs is bounded by the retention, also while the polls bring nothing new.
SeenWithinRetention ==
    \A r \in DOMAIN seenIDs : seenIDs[r] >= lastEnd - Retention

\* A punctual record within reach of the polls is delivered in the end, unless
\* the ingestor is told to stop.
PunctualEventuallyDelivered ==
    \A r \in Records :
        (r \in punctual /\ lastEnd # ZeroTime /\ coveredFrom <= ts[r])
            ~> (timeline[r] > 0 \/ cancelled)

\* Run returns after its context is cancelled.
CancelledRunReturns == cancelled ~> (pc = "stopped")

=============================================================================
