---------------------------- MODULE LogsCollector ----------------------------
(***************************************************************************)
(* The CloudWatch Logs collector, internal/telemetry/cloudwatchlogs/       *)
(* collector.go: Collect follows the pages of FilterLogEvents, every page  *)
(* is fetched by filterWithRetry, all the pages of one Collect share one   *)
(* retry budget, and the retry counters last as long as the collector.     *)
(*                                                                         *)
(* A page is named by the token that requests it.  Durations are counted   *)
(* in units of 250ms and wrap around at MaxDuration.                       *)
(***************************************************************************)
EXTENDS Integers, Sequences, FiniteSets

CONSTANTS Tokens,    \* the pagination tokens of the service
          First,     \* the page requested without a token
          NoToken,   \* no further page
          Configs,   \* the CollectorConfigs given to NewCollector
          MaxDuration,  \* the largest time.Duration
          MaxRounds  \* bound: how many times Collect is called

Pages == Tokens \cup {First}

ASSUME PageAssumption == /\ IsFiniteSet(Tokens)
                         /\ First \notin Tokens
                         /\ NoToken \notin Pages
                         /\ MaxRounds \in Nat

ASSUME ConfigAssumption ==
    Configs \subseteq [maxAttempts : Int, maxRetryBudget : Int,
                       initialBackoff : Int, maxBackoff : Int, jitter : Int]

ASSUME DurationAssumption ==
    /\ MaxDuration \in Nat /\ 20 <= MaxDuration
    /\ \A c \in Configs : c.initialBackoff <= MaxDuration /\ c.maxBackoff <= MaxDuration

VARIABLES
    cfg,              \* the configuration of the collector
    chain,            \* the service: the token that each page carries
    pc,               \* where the caller of Collect is
    ctxDone,          \* the context of the Collect is cancelled or timed out
    nextToken,        \* the page being fetched
    seenToken,        \* the tokens received by this Collect
    records,          \* the pages whose records were collected
    attempt,          \* locals of filterWithRetry
    backoff, delay,
    remainingBudget,  \* retryState.remainingBudget
    throttledResponses, retryAttempts, retryBudgetExceeded, throttleDrops,
    outcome,          \* how the last Collect ended
    calls,            \* history: the requests sent by this Collect
    rounds            \* how many times Collect was called

collectVars == <<chain, nextToken, seenToken, records, remainingBudget>>
retryVars == <<attempt, backoff, delay>>
counters == <<throttledResponses, retryAttempts, retryBudgetExceeded, throttleDrops>>
vars == <<cfg, pc, ctxDone, collectVars, retryVars, counters, outcome, calls, rounds>>

-----------------------------------------------------------------------------
(* NewCollector: the defaults.                                              *)

\* Mutant of Or: a zero setting is taken as given.
OrNegative(value, default) == IF value < 0 THEN default ELSE value

Or(value, default) == IF value <= 0 THEN default ELSE value

MaxAttempts == Or(cfg.maxAttempts, 3)
InitialBackoff == Or(cfg.initialBackoff, 1)
MaxBackoff ==
    LET max == Or(cfg.maxBackoff, 20)
    IN  IF max < InitialBackoff THEN InitialBackoff ELSE max
RetryBudget == Or(cfg.maxRetryBudget, MaxAttempts - 1)

\* JitterFraction, in percent.
Jitter == IF Or(cfg.jitter, 20) > 100 THEN 100 ELSE Or(cfg.jitter, 20)

\* A duration wraps around.
Wrap(d) == ((d + MaxDuration + 1) % (2 * MaxDuration + 2)) - MaxDuration - 1

\* Mutant of NextBackoff: the product is not checked for overflow.
NextBackoffUnchecked(current) ==
    LET next == Wrap(current * 2)
    IN  IF next > MaxBackoff THEN MaxBackoff ELSE next

NextBackoff(current) ==
    LET next == Wrap(current * 2)
    IN  IF next <= 0 \/ next > MaxBackoff THEN MaxBackoff ELSE next

\* The product of a backoff with a factor between 1 - Jitter and 1 + Jitter, without its
\* fraction.
Jittered(base) ==
    IF base <= 0 THEN {0}
    ELSE {d \in 0..(2 * base) :
             /\ base * (100 - Jitter) < 100 * (d + 1)
             /\ 100 * d <= base * (100 + Jitter)}

\* The product is one of floats, and the conversion of one that no duration holds depends
\* on the machine: the least int64 on amd64, which the code takes for no wait, the largest
\* on arm64.
JitteredBackoff(base) ==
    {d \in Jittered(base) : d <= MaxDuration}
        \cup {d \in {0, MaxDuration} : base * (100 + Jitter) > 100 * MaxDuration}

-----------------------------------------------------------------------------

Init ==
    /\ cfg \in Configs
    /\ chain = [p \in Pages |-> NoToken]
    /\ pc = "idle" /\ ctxDone = FALSE
    /\ nextToken = First /\ seenToken = {} /\ records = <<>>
    /\ attempt = 1 /\ backoff = InitialBackoff /\ delay = 0
    /\ remainingBudget = RetryBudget
    /\ throttledResponses = 0 /\ retryAttempts = 0
    /\ retryBudgetExceeded = 0 /\ throttleDrops = 0
    /\ outcome = "none" /\ calls = 0 /\ rounds = 0

\* Collect without a log group, or with a window that ends before it starts.
RejectRequest ==
    /\ pc = "idle" /\ rounds < MaxRounds
    /\ rounds' = rounds + 1
    /\ outcome' = "invalid"
    /\ records' = <<>>
    /\ UNCHANGED <<cfg, pc, ctxDone, chain, nextToken, seenToken, remainingBudget,
                   retryVars, counters, calls>>

\* filterWithRetry begins on a page.
BeginPage(p) ==
    /\ pc' = "call"
    /\ nextToken' = p
    /\ attempt' = 1 /\ backoff' = InitialBackoff /\ delay' = 0
    /\ calls' = calls + 1

\* Collect: nothing is kept of the Collect before, but for the counters.
Collect ==
    /\ pc = "idle" /\ rounds < MaxRounds
    /\ rounds' = rounds + 1
    /\ chain' \in [Pages -> Tokens \cup {NoToken}]
    /\ ctxDone' = FALSE
    /\ seenToken' = {} /\ records' = <<>>
    /\ remainingBudget' = RetryBudget
    /\ outcome' = "none"
    /\ pc' = "call" /\ nextToken' = First
    /\ attempt' = 1 /\ backoff' = InitialBackoff /\ delay' = 0
    /\ calls' = 1
    /\ UNCHANGED <<cfg, counters>>

\* Mutant of Return: the loop is left before the last page is appended.
ReturnEarly(how) ==
    /\ pc' = "idle"
    /\ outcome' = how
    /\ records' = IF how = "ok" THEN records ELSE <<>>

\* Collect returns: its records only when it succeeds.
Return(how) ==
    /\ pc' = "idle"
    /\ outcome' = how
    /\ records' = IF how = "ok" THEN Append(records, nextToken) ELSE <<>>

\* FilterLogEvents returns a page; the last one, and one whose token was received
\* before, ends the Collect.
PageOK ==
    /\ pc = "call"
    /\ LET next == chain[nextToken]
       IN  \/ /\ next = NoToken \/ next \in seenToken
              /\ Return("ok")
              /\ UNCHANGED <<nextToken, seenToken, retryVars, calls>>
           \/ /\ next # NoToken /\ next \notin seenToken
              /\ seenToken' = seenToken \cup {next}
              /\ records' = Append(records, nextToken)
              /\ BeginPage(next)
              /\ UNCHANGED outcome
    /\ UNCHANGED <<cfg, ctxDone, chain, remainingBudget, counters, rounds>>

\* Any error but throttling, a cancelled request among them, ends the Collect.
CallFails ==
    /\ pc = "call"
    /\ Return("error")
    /\ UNCHANGED <<cfg, ctxDone, chain, nextToken, seenToken, remainingBudget,
                   retryVars, counters, calls, rounds>>

\* FilterLogEvents is throttled.
Throttled ==
    /\ pc = "call"
    /\ throttledResponses' = throttledResponses + 1
    /\ pc' = "throttled"
    /\ UNCHANGED <<cfg, ctxDone, collectVars, retryVars, retryAttempts, retryBudgetExceeded,
                   throttleDrops, outcome, calls, rounds>>

\* Mutant of GiveUp: an exhausted budget is not counted as a drop.
GiveUpUncounted ==
    /\ pc = "throttled"
    /\ \/ /\ attempt = MaxAttempts
          /\ throttleDrops' = throttleDrops + 1
          /\ Return("error")
          /\ UNCHANGED retryBudgetExceeded
       \/ /\ attempt # MaxAttempts /\ remainingBudget <= 0
          /\ retryBudgetExceeded' = retryBudgetExceeded + 1
          /\ Return("exhausted")
          /\ UNCHANGED throttleDrops
    /\ UNCHANGED <<cfg, ctxDone, chain, nextToken, seenToken, remainingBudget, retryVars,
                   throttledResponses, retryAttempts, calls, rounds>>

\* The attempts of the page are used up, or the budget of the Collect is.  Nothing reads
\* the counters between two of their additions.
GiveUp ==
    /\ pc = "throttled"
    /\ throttleDrops' = throttleDrops + 1
    /\ \/ /\ attempt = MaxAttempts
          /\ Return("error")
          /\ UNCHANGED retryBudgetExceeded
       \/ /\ attempt # MaxAttempts /\ remainingBudget <= 0
          /\ retryBudgetExceeded' = retryBudgetExceeded + 1
          /\ Return("exhausted")
    /\ UNCHANGED <<cfg, ctxDone, chain, nextToken, seenToken, remainingBudget, retryVars,
                   throttledResponses, retryAttempts, calls, rounds>>

\* Mutant of Retry: a retry takes nothing from the budget.
RetryFree ==
    /\ pc = "throttled"
    /\ attempt # MaxAttempts /\ remainingBudget > 0
    /\ retryAttempts' = retryAttempts + 1
    /\ pc' = "wait" /\ delay' \in JitteredBackoff(backoff)
    /\ UNCHANGED <<cfg, ctxDone, collectVars, attempt, backoff, throttledResponses,
                   retryBudgetExceeded, throttleDrops, outcome, calls, rounds>>

\* A retry is taken from the budget and counted before the wait.
Retry ==
    /\ pc = "throttled"
    /\ attempt # MaxAttempts /\ remainingBudget > 0
    /\ remainingBudget' = remainingBudget - 1
    /\ retryAttempts' = retryAttempts + 1
    /\ pc' = "wait" /\ delay' \in JitteredBackoff(backoff)
    /\ UNCHANGED <<cfg, ctxDone, chain, nextToken, seenToken, records, attempt, backoff,
                   throttledResponses, retryBudgetExceeded, throttleDrops, outcome, calls, rounds>>

\* waitBackoff: the context is checked before the sleep, which nothing interrupts,
Sleep ==
    /\ pc = "wait" /\ ~ctxDone
    /\ pc' = "slept"
    /\ UNCHANGED <<cfg, ctxDone, collectVars, retryVars, counters, outcome, calls, rounds>>

\* and again after it;
WaitCancelled ==
    /\ pc \in {"wait", "slept"} /\ ctxDone
    /\ Return("cancelled")
    /\ UNCHANGED <<cfg, ctxDone, chain, nextToken, seenToken, remainingBudget,
                   retryVars, counters, calls, rounds>>

\* Mutant of NextAttempt: the select after the sleep waits for the context.
NextAttemptBlocked ==
    /\ pc = "slept" /\ ctxDone
    /\ Return("cancelled")
    /\ UNCHANGED <<cfg, ctxDone, chain, nextToken, seenToken, remainingBudget,
                   retryVars, counters, calls, rounds>>

\* then the page is requested again.
NextAttempt ==
    /\ pc = "slept" /\ ~ctxDone
    /\ pc' = "call"
    /\ attempt' = attempt + 1
    /\ backoff' = NextBackoff(backoff) /\ delay' = 0
    /\ calls' = calls + 1
    /\ UNCHANGED <<cfg, ctxDone, collectVars, counters, outcome, rounds>>

\* The timeout of the poll, or the shutdown.
ContextDone ==
    /\ pc # "idle" /\ ~ctxDone
    /\ ctxDone' = TRUE
    /\ UNCHANGED <<cfg, pc, collectVars, retryVars, counters, outcome, calls, rounds>>

Respond == PageOK \/ CallFails \/ Throttled

Step == GiveUp \/ Retry \/ Sleep \/ WaitCancelled \/ NextAttempt

Next == RejectRequest \/ Collect \/ Respond \/ Step \/ ContextDone

Spec == Init /\ [][Next]_vars

(* The service answers every request, and straight-line code runs on.       *)
FairSpec == Spec /\ WF_vars(Respond) /\ WF_vars(Step)

-----------------------------------------------------------------------------
(* Properties.                                                              *)

PCs == {"idle", "call", "throttled", "wait", "slept"}
Outcomes == {"none", "ok", "error", "exhausted", "cancelled", "invalid"}

\* Every variable has its type.
TypeOK ==
    /\ cfg \in Configs
    /\ chain \in [Pages -> Tokens \cup {NoToken}]
    /\ pc \in PCs /\ ctxDone \in BOOLEAN /\ outcome \in Outcomes
    /\ nextToken \in Pages /\ seenToken \subseteq Tokens
    /\ records \in Seq(Pages)
    /\ attempt \in 1..MaxAttempts
    /\ backoff \in InitialBackoff..MaxBackoff /\ delay \in 0..MaxDuration
    /\ remainingBudget \in 0..RetryBudget
    /\ throttledResponses \in Nat /\ retryAttempts \in Nat
    /\ retryBudgetExceeded \in Nat /\ throttleDrops \in Nat
    /\ calls \in Nat /\ rounds \in 0..MaxRounds

\* A Collect that succeeds has read the pages of its window from the first to the
\* last, each once, also when the service hands out a token again.
CompleteOnSuccess ==
    outcome = "ok" =>
        /\ records # <<>> /\ records[1] = First
        /\ \A i \in 1..Len(records) - 1 : records[i + 1] = chain[records[i]]
        /\ chain[records[Len(records)]] \in {NoToken} \cup {records[i] : i \in 1..Len(records)}
        /\ \A i, j \in 1..Len(records) : records[i] = records[j] => i = j

\* A throttling storm costs a Collect its budget once, not once for every page.
CallsBounded == calls <= Cardinality(Pages) + RetryBudget

\* Every throttled response is accounted for by a retry or by a drop, also when the
\* wait before the retry is cancelled.
CountersBalanced ==
    /\ throttledResponses =
           retryAttempts + throttleDrops + IF pc = "throttled" THEN 1 ELSE 0
    /\ retryBudgetExceeded <= throttleDrops

\* The wait before a retry, but for its jitter, is at least the initial backoff times the
\* attempts of the page so far, as far as the maximal backoff allows, and at most that:
\* the doubling never overflows into a short wait.  The jitter may: there is no wait at all
\* after a backoff that exceeds, with its jitter, the largest duration.
WaitGrows ==
    pc \in {"wait", "slept"} =>
        /\ 100 * delay <= MaxBackoff * (100 + Jitter)
        /\ \/ MaxBackoff * (100 - Jitter) < 100 * (delay + 1)
           \/ InitialBackoff * attempt * (100 - Jitter) < 100 * (delay + 1)
           \/ delay = 0 /\ backoff * (100 + Jitter) > 100 * MaxDuration

\* Collect returns, whatever the service answers and however its tokens repeat.
CollectReturns == pc # "idle" ~> pc = "idle"

=============================================================================
