--------------------------- MODULE MetricsCollector ---------------------------
(***************************************************************************)
(* The CloudWatch metrics collector, internal/telemetry/cloudwatch/        *)
(* collector.go: Collect asks for all the series of its targets in one     *)
(* GetMetricData, which is retried when it is throttled.  Its retry loop   *)
(* is a copy of the one in the log collector, for one page.                *)
(*                                                                         *)
(* The targets are those parsed from FLOW_CW_METRIC_TARGETS.  Durations    *)
(* are counted in units of 250ms and wrap around at MaxDuration.           *)
(***************************************************************************)
EXTENDS Targets

CONSTANTS TokenLists,  \* the values of FLOW_CW_METRIC_TARGETS, split at the commas
          Lengths,     \* how many timestamps and values a result may have
          MaxResults,  \* bound: how many results an answer has
          Configs,     \* the CollectorConfigs given to NewCollector
          MaxDuration, \* the largest time.Duration
          MaxRounds    \* bound: how many times Collect is called

ASSUME TokensAssumption ==
    TokenLists \subseteq Seq([colon : BOOLEAN, type : STRING, value : Seq(Nat)])

ASSUME ServiceAssumption == Lengths \subseteq Nat \X Nat /\ MaxResults \in Nat

ASSUME ConfigAssumption ==
    Configs \subseteq [maxAttempts : Int, maxRetryBudget : Int,
                       initialBackoff : Int, maxBackoff : Int, jitter : Int]

ASSUME DurationAssumption ==
    /\ MaxDuration \in Nat /\ 20 <= MaxDuration
    /\ \A c \in Configs : c.initialBackoff <= MaxDuration /\ c.maxBackoff <= MaxDuration

ASSUME RoundsAssumption == MaxRounds \in Nat

VARIABLES
    cfg,              \* the configuration of the collector
    targets,          \* the targets, as they were parsed
    pc,               \* where the caller of Collect is
    ctxDone,          \* the context of the Collect is cancelled or timed out
    queries,          \* local of Collect: what is asked for
    attempt, backoff, delay, \* locals of getMetricDataWithRetry
    remainingBudget,  \* retryState.remainingBudget
    metrics,          \* the counters of the collector
    outcome,          \* how the last Collect ended
    points,           \* the points it returned
    calls,            \* history: the requests sent by this Collect
    rounds            \* how many times Collect was called

retryVars == <<attempt, backoff, delay, remainingBudget>>
resultVars == <<outcome, points>>
vars == <<cfg, targets, pc, ctxDone, queries, retryVars, metrics, resultVars, calls, rounds>>

-----------------------------------------------------------------------------
(* NewCollector: the defaults.                                              *)

Or(value, default) == IF value <= 0 THEN default ELSE value

MaxAttempts == Or(cfg.maxAttempts, 3)
InitialBackoff == Or(cfg.initialBackoff, 1)
MaxBackoff ==
    LET max == Or(cfg.maxBackoff, 20)
    IN  IF max < InitialBackoff THEN InitialBackoff ELSE max
RetryBudget == Or(cfg.maxRetryBudget, MaxAttempts - 1)

\* JitterFraction, in percent.
Jitter == IF Or(cfg.jitter, 20) > 100 THEN 100 ELSE Or(cfg.jitter, 20)

\* A duration wraps around.
Wrap(d) == ((d + MaxDuration + 1) % (2 * MaxDuration + 2)) - MaxDuration - 1

\* Mutant of NextBackoff: the product is not checked for overflow.
NextBackoffUnchecked(current) ==
    LET next == Wrap(current * 2)
    IN  IF next > MaxBackoff THEN MaxBackoff ELSE next

NextBackoff(current) ==
    LET next == Wrap(current * 2)
    IN  IF next <= 0 \/ next > MaxBackoff THEN MaxBackoff ELSE next

\* The product of a backoff with a factor between 1 - Jitter and 1 + Jitter, without its
\* fraction.
Jittered(base) ==
    IF base <= 0 THEN {0}
    ELSE {d \in 0..(2 * base) :
             /\ base * (100 - Jitter) < 100 * (d + 1)
             /\ 100 * d <= base * (100 + Jitter)}

\* The product is one of floats, and the conversion of one that no duration holds depends
\* on the machine: the least int64 on amd64, which the code takes for no wait, the largest
\* on arm64.
JitteredBackoff(base) ==
    {d \in Jittered(base) : d <= MaxDuration}
        \cup {d \in {0, MaxDuration} : base * (100 + Jitter) > 100 * MaxDuration}

-----------------------------------------------------------------------------

Init ==
    /\ cfg \in Configs
    /\ \E tokens \in TokenLists : targets \in ParseTargets(tokens)
    /\ pc = "idle" /\ ctxDone = FALSE /\ queries = <<>>
    /\ attempt = 1 /\ backoff = InitialBackoff /\ delay = 0 /\ remainingBudget = RetryBudget
    /\ metrics = [throttledResponses |-> 0, retryAttempts |-> 0,
                  retryBudgetExceeded |-> 0, throttleDrops |-> 0]
    /\ outcome = "none" /\ points = <<>> /\ calls = 0 /\ rounds = 0

\* Collect without a target, or without a series to ask for, returns nothing.
CollectNothing ==
    /\ pc = "idle" /\ rounds < MaxRounds
    /\ rounds' = rounds + 1
    /\ queries' = BuildMetricQueries(targets) /\ queries' = <<>>
    /\ outcome' = "nothing" /\ points' = <<>>
    /\ UNCHANGED <<cfg, targets, pc, ctxDone, retryVars, metrics, calls>>

\* Collect sends its first request, with a budget of its own.
Collect ==
    /\ pc = "idle" /\ rounds < MaxRounds
    /\ rounds' = rounds + 1
    /\ queries' = BuildMetricQueries(targets) /\ queries' # <<>>
    /\ ctxDone' = FALSE
    /\ pc' = "call" /\ calls' = 1
    /\ attempt' = 1 /\ backoff' = InitialBackoff /\ delay' = 0 /\ remainingBudget' = RetryBudget
    /\ outcome' = "none" /\ points' = <<>>
    /\ UNCHANGED <<cfg, targets, metrics>>

\* The service: a result holds timestamps and values of the series of one query,
\* of the n-th point of the k-th query the pair <<k, n>>, under the identifier
\* of that query; a result under another identifier, or none, may be among them.
Result(k, lengths) ==
    [id |-> queries[k].id,
     timestamps |-> [n \in 1..lengths[1] |-> <<k, n>>],
     values |-> [n \in 1..lengths[2] |-> <<k, n>>]]
Stray == [id |-> 0, timestamps |-> << <<0, 1>> >>, values |-> << <<0, 1>> >>]

\* The answers: results in any order, some of them twice or not at all, strays among them.
Outputs ==
    BoundedSeq({Result(k, lengths) : k \in DOMAIN queries, lengths \in Lengths} \cup {Stray},
               MaxResults)

Return(how) ==
    /\ pc' = "idle"
    /\ outcome' = how
    /\ points' = <<>>

\* GetMetricData succeeds.
Answered ==
    /\ pc = "call"
    /\ pc' = "idle" /\ outcome' = "ok"
    /\ LET descriptors == Descriptors(queries)
       IN  \E output \in Outputs : points' = MetricPoints(output, descriptors)
    /\ UNCHANGED <<cfg, targets, queries, ctxDone, retryVars, metrics, calls, rounds>>

\* Any error but throttling, a cancelled request among them, ends the Collect.
CallFails ==
    /\ pc = "call"
    /\ Return("error")
    /\ UNCHANGED <<cfg, targets, queries, ctxDone, retryVars, metrics, calls, rounds>>

\* GetMetricData is throttled.
Throttled ==
    /\ pc = "call"
    /\ pc' = "throttled"
    /\ metrics' = [metrics EXCEPT !.throttledResponses = @ + 1]
    /\ UNCHANGED <<cfg, targets, queries, ctxDone, retryVars, resultVars, calls, rounds>>

\* The attempts are used up, or the budget is.
GiveUp ==
    /\ pc = "throttled"
    /\ \/ /\ attempt = MaxAttempts
          /\ Return("error")
          /\ metrics' = [metrics EXCEPT !.throttleDrops = @ + 1]
       \/ /\ attempt # MaxAttempts /\ remainingBudget <= 0
          /\ Return("exhausted")
          /\ metrics' = [metrics EXCEPT !.throttleDrops = @ + 1, !.retryBudgetExceeded = @ + 1]
    /\ UNCHANGED <<cfg, targets, queries, ctxDone, retryVars, calls, rounds>>

\* Mutant of Retry: the retry is not counted.
RetryUncounted ==
    /\ pc = "throttled"
    /\ attempt # MaxAttempts /\ remainingBudget > 0
    /\ pc' = "wait" /\ delay' \in JitteredBackoff(backoff)
    /\ remainingBudget' = remainingBudget - 1
    /\ UNCHANGED <<cfg, targets, queries, ctxDone, attempt, backoff, metrics, resultVars, calls, rounds>>

\* A retry is taken from the budget and counted before the wait.
Retry ==
    /\ pc = "throttled"
    /\ attempt # MaxAttempts /\ remainingBudget > 0
    /\ pc' = "wait" /\ delay' \in JitteredBackoff(backoff)
    /\ remainingBudget' = remainingBudget - 1
    /\ metrics' = [metrics EXCEPT !.retryAttempts = @ + 1]
    /\ UNCHANGED <<cfg, targets, queries, ctxDone, attempt, backoff, resultVars, calls, rounds>>

\* waitBackoff: the context is checked before the sleep, which nothing interrupts,
Sleep ==
    /\ pc = "wait" /\ ~ctxDone
    /\ pc' = "slept"
    /\ UNCHANGED <<cfg, targets, queries, ctxDone, retryVars, metrics, resultVars, calls, rounds>>

\* and again after it;
WaitCancelled ==
    /\ pc \in {"wait", "slept"} /\ ctxDone
    /\ Return("cancelled")
    /\ UNCHANGED <<cfg, targets, queries, ctxDone, retryVars, metrics, calls, rounds>>

\* then the request is sent again.
NextAttempt ==
    /\ pc = "slept" /\ ~ctxDone
    /\ pc' = "call" /\ calls' = calls + 1
    /\ attempt' = attempt + 1
    /\ backoff' = NextBackoff(backoff) /\ delay' = 0
    /\ UNCHANGED <<cfg, targets, queries, ctxDone, remainingBudget, metrics, resultVars, rounds>>

\* The timeout of the poll, or the shutdown.
ContextDone ==
    /\ pc # "idle" /\ ~ctxDone
    /\ ctxDone' = TRUE
    /\ UNCHANGED <<cfg, targets, queries, pc, retryVars, metrics, resultVars, calls, rounds>>

Respond == Answered \/ CallFails \/ Throttled

Step == GiveUp \/ Retry \/ Sleep \/ WaitCancelled \/ NextAttempt

Next == CollectNothing \/ Collect \/ Respond \/ Step \/ ContextDone

Spec == Init /\ [][Next]_vars

(* The service answers every request, and straight-line code runs on.       *)
FairSpec == Spec /\ WF_vars(Respond) /\ WF_vars(Step)

-----------------------------------------------------------------------------
(* Properties.                                                              *)

\* Every variable has its type, points that of what the collector was asked for.
TypeOK ==
    /\ cfg \in Configs
    /\ pc \in {"idle", "call", "throttled", "wait", "slept"} /\ ctxDone \in BOOLEAN
    /\ outcome \in {"none", "ok", "error", "exhausted", "cancelled", "nothing"}
    /\ attempt \in 1..MaxAttempts
    /\ backoff \in InitialBackoff..MaxBackoff /\ delay \in 0..MaxDuration
    /\ remainingBudget \in 0..RetryBudget
    /\ \A counter \in DOMAIN metrics : metrics[counter] \in Nat
    /\ \A i \in DOMAIN points :
        points[i].series \in {queries[k].asks : k \in DOMAIN queries}
    /\ calls \in Nat /\ rounds \in 0..MaxRounds

\* What the parser accepts the collector asks for, every target of it, and two
\* targets share no series, so the points of one are never taken for points of the
\* other by the loop that remembers them by resource, namespace and metric.
TargetsKeptApart ==
    \A i, j \in DOMAIN targets :
        LET Series(t) == {MetricSpecs(t)[k] : k \in DOMAIN MetricSpecs(t)}
        IN  /\ Series(targets[i]) # {}
            /\ targets[i] # targets[j] => Series(targets[i]) \cap Series(targets[j]) = {}

\* Every point carries the resource and the metric of the query it answers, with
\* its own timestamp beside its own value, in whatever order the results come, whichever
\* of them are repeated, missing or not asked for, and however uneven their lengths are.
PointsAttributed ==
    \A i \in DOMAIN points :
        /\ points[i].timestamp = points[i].value
        /\ points[i].value[1] \in DOMAIN queries
        /\ points[i].series = queries[points[i].value[1]].asks

\* The two copies of the retry loop agree: this collector implements the one for
\* logs, with a single page, its fairness included.  So its requests are bounded,
\* its waits grow, its counters balance and its Collect returns as theirs do.
First == "first"
NoToken == "none"
LC == INSTANCE LogsCollector WITH
        Tokens <- {}, First <- First, NoToken <- NoToken,
        chain <- [p \in {First} |-> NoToken],
        nextToken <- First, seenToken <- {},
        records <- IF outcome = "ok" THEN <<First>> ELSE <<>>,
        throttledResponses <- metrics.throttledResponses,
        retryAttempts <- metrics.retryAttempts,
        retryBudgetExceeded <- metrics.retryBudgetExceeded,
        throttleDrops <- metrics.throttleDrops,
        outcome <- IF outcome = "nothing" THEN "invalid" ELSE outcome
RetriesAsLogsCollector == LC!FairSpec
=============================================================================
