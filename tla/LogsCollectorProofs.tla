------------------------- MODULE LogsCollectorProofs -------------------------
(* The retry accounting of LogsCollector for every configuration, every set  *)
(* of tokens and every range of durations.                                   *)
EXTENDS LogsCollector, FiniteSetTheorems, SequenceTheorems, TLAPS

-----------------------------------------------------------------------------
(* What the accounting needs of the types; TypeCorrect adds the rest.        *)

CountType ==
    /\ cfg \in Configs
    /\ pc \in PCs
    /\ chain \in [Pages -> Tokens \cup {NoToken}]
    /\ nextToken \in Pages /\ seenToken \subseteq Tokens
    /\ remainingBudget \in 0..RetryBudget
    /\ throttledResponses \in Nat /\ retryAttempts \in Nat
    /\ retryBudgetExceeded \in Nat /\ throttleDrops \in Nat
    /\ calls \in Nat

\* A request beyond the first of its page was paid for with the budget, and a page
\* beyond the first with a token; a retry that still waits is paid for already.
CallsPaid ==
    calls + (IF pc \in {"wait", "slept"} THEN 1 ELSE 0)
        <= 1 + Cardinality(seenToken) + (RetryBudget - remainingBudget)

\* The defaults of NewCollector make every setting usable.
LEMMA Defaults ==
    ASSUME cfg \in Configs
    PROVE  MaxAttempts \in Nat \ {0} /\ RetryBudget \in Nat
<1>1. cfg.maxAttempts \in Int /\ cfg.maxRetryBudget \in Int
  BY ConfigAssumption
<1>2. MaxAttempts \in Nat \ {0}
  BY <1>1 DEF MaxAttempts, Or
<1> QED
  BY <1>1, <1>2 DEF RetryBudget, Or

\* The configuration never changes, and neither does what is derived from it.
LEMMA ConfigConstant ==
    ASSUME cfg' = cfg
    PROVE  MaxAttempts' = MaxAttempts /\ RetryBudget' = RetryBudget
BY DEF MaxAttempts, RetryBudget, Or

LEMMA InitCountType == Init => CountType
<1> SUFFICES ASSUME Init
             PROVE  CountType
  OBVIOUS
<1>1. RetryBudget \in Nat
  BY Defaults DEF Init
<1> QED
  BY <1>1 DEF Init, CountType, PCs, Pages

LEMMA NextCountType == CountType /\ [Next]_vars => CountType'
<1> SUFFICES ASSUME CountType, [Next]_vars
             PROVE  CountType'
  OBVIOUS
<1>1. cfg' = cfg
  BY DEF Next, RejectRequest, Collect, Respond, PageOK, CallFails, Throttled, Step, GiveUp,
         Retry, Sleep, WaitCancelled, NextAttempt, ContextDone, vars
<1>2. RetryBudget' = RetryBudget /\ RetryBudget \in Nat /\ MaxAttempts \in Nat
  BY <1>1, ConfigConstant, Defaults DEF CountType
<1> USE <1>1, <1>2 DEF CountType, PCs, collectVars, retryVars, counters
<1>3. CASE RejectRequest \/ Collect
  BY <1>3 DEF RejectRequest, Collect, Pages
<1>4. CASE PageOK
  BY <1>4 DEF PageOK, Return, BeginPage, Pages
<1>5. CASE CallFails \/ Throttled
  BY <1>5 DEF CallFails, Throttled, Return
<1>6. CASE GiveUp
  BY <1>6 DEF GiveUp, Return
<1>7. CASE Retry
  BY <1>7 DEF Retry
<1>8. CASE Sleep \/ WaitCancelled \/ NextAttempt \/ ContextDone
  BY <1>8 DEF Sleep, WaitCancelled, NextAttempt, ContextDone, Return
<1>9. CASE UNCHANGED vars
  BY <1>9 DEF vars
<1> QED
  BY <1>3, <1>4, <1>5, <1>6, <1>7, <1>8, <1>9 DEF Next, Respond, Step

\* The counters, the budget and the state of pagination keep their types.
THEOREM CountsTyped == Spec => []CountType
BY InitCountType, NextCountType, PTL DEF Spec

-----------------------------------------------------------------------------
(* The counters.                                                            *)

\* Throttled responses are retried or dropped, none is lost and none counted twice.
THEOREM Balanced == Spec => []CountersBalanced
<1>1. Init => CountersBalanced
  BY DEF Init, CountersBalanced
<1>2. CountType /\ CountersBalanced /\ [Next]_vars => CountersBalanced'
  <2> SUFFICES ASSUME CountType, CountersBalanced, [Next]_vars
               PROVE  CountersBalanced'
    OBVIOUS
  <2> USE DEF CountType, CountersBalanced, counters
  <2>1. CASE Throttled
    BY <2>1 DEF Throttled
  <2>2. CASE GiveUp
    BY <2>2 DEF GiveUp, Return
  <2>3. CASE Retry
    BY <2>3 DEF Retry
  <2>4. CASE \/ RejectRequest \/ Collect \/ PageOK \/ CallFails
             \/ Sleep \/ WaitCancelled \/ NextAttempt
    <3>1. pc # "throttled" /\ pc' # "throttled" /\ UNCHANGED counters
      BY <2>4 DEF RejectRequest, Collect, PageOK, CallFails, Sleep, WaitCancelled, NextAttempt,
                  Return, BeginPage
    <3> QED
      BY <3>1
  <2>5. CASE ContextDone \/ UNCHANGED vars
    BY <2>5 DEF ContextDone, vars
  <2> QED
    BY <2>1, <2>2, <2>3, <2>4, <2>5 DEF Next, Respond, Step
<1> QED
  BY <1>1, <1>2, CountsTyped, PTL DEF Spec

-----------------------------------------------------------------------------
(* The requests.                                                            *)

\* The tokens are finitely many, so their sets can be counted.
LEMMA TokenSets ==
    ASSUME NEW S, S \subseteq Tokens
    PROVE  /\ IsFiniteSet(S) /\ Cardinality(S) \in Nat
           /\ Cardinality(S) <= Cardinality(Tokens)
           /\ \A t \in Tokens \ S : Cardinality(S \cup {t}) = Cardinality(S) + 1
BY PageAssumption, FS_Subset, FS_CardinalityType, FS_AddElement

LEMMA NextCallsPaid == CountType /\ CountType' /\ CallsPaid /\ [Next]_vars => CallsPaid'
<1> SUFFICES ASSUME CountType, CountType', CallsPaid, [Next]_vars
             PROVE  CallsPaid'
  OBVIOUS
<1>1. cfg' = cfg
  BY DEF Next, RejectRequest, Collect, Respond, PageOK, CallFails, Throttled, Step, GiveUp,
         Retry, Sleep, WaitCancelled, NextAttempt, ContextDone, vars
<1>2. RetryBudget' = RetryBudget /\ RetryBudget \in Nat
  BY <1>1, ConfigConstant, Defaults DEF CountType
<1>3. Cardinality(seenToken) \in Nat /\ remainingBudget \in Nat /\ calls \in Nat
  BY TokenSets DEF CountType
<1> USE <1>2, <1>3 DEF CallsPaid, collectVars
<1>4. CASE Collect
  <2>1. seenToken' = {} /\ calls' = 1 /\ remainingBudget' = RetryBudget /\ pc' = "call"
    BY <1>4 DEF Collect
  <2>2. Cardinality(seenToken') = 0
    BY <2>1, FS_EmptySet
  <2> QED
    BY <2>1, <2>2
<1>5. CASE PageOK
  <2>1. CASE UNCHANGED <<calls, seenToken>>
    BY <1>5, <2>1 DEF PageOK, Return, BeginPage
  <2>2. CASE ~UNCHANGED <<calls, seenToken>>
    <3>1. /\ chain[nextToken] \in Tokens \ seenToken
          /\ seenToken' = seenToken \cup {chain[nextToken]}
          /\ calls' = calls + 1 /\ pc' = "call" /\ remainingBudget' = remainingBudget
      BY <1>5, <2>2 DEF PageOK, BeginPage, CountType
    <3>2. Cardinality(seenToken') = Cardinality(seenToken) + 1
      BY <3>1, TokenSets DEF CountType
    <3> QED
      BY <3>1, <3>2
  <2> QED
    BY <2>1, <2>2
<1>6. CASE Retry
  BY <1>6 DEF Retry
<1>7. CASE NextAttempt
  BY <1>7 DEF NextAttempt
<1>8. CASE RejectRequest \/ CallFails \/ Throttled \/ GiveUp \/ Sleep \/ WaitCancelled
  <2>1. UNCHANGED <<seenToken, calls, remainingBudget>>
    BY <1>8 DEF RejectRequest, CallFails, Throttled, GiveUp, Sleep, WaitCancelled
  <2>2. pc' \in {"wait", "slept"} => pc \in {"wait", "slept"}
    BY <1>8 DEF RejectRequest, CallFails, Throttled, GiveUp, Sleep, WaitCancelled, Return
  <2> QED
    BY <2>1, <2>2
<1>9. CASE ContextDone \/ UNCHANGED vars
  BY <1>9 DEF ContextDone, vars
<1> QED
  BY <1>4, <1>5, <1>6, <1>7, <1>8, <1>9 DEF Next, Respond, Step

\* A Collect sends one request for every page and one more for every unit of its
\* budget at most, however the throttling is spread over the pages.
THEOREM RequestsBounded == Spec => []CallsBounded
<1>1. Init => CallsPaid
  <2> SUFFICES ASSUME Init
               PROVE  CallsPaid
    OBVIOUS
  <2>1. RetryBudget \in Nat /\ Cardinality({}) = 0
    BY Defaults, FS_EmptySet DEF Init
  <2> QED
    BY <2>1 DEF Init, CallsPaid
<1>2. CountType /\ CallsPaid => CallsBounded
  <2> SUFFICES ASSUME CountType, CallsPaid
               PROVE  CallsBounded
    OBVIOUS
  <2>1. /\ Cardinality(seenToken) \in Nat /\ Cardinality(seenToken) <= Cardinality(Tokens)
        /\ Cardinality(Tokens) \in Nat
    BY TokenSets DEF CountType
  <2>2. Cardinality(Pages) = Cardinality(Tokens) + 1
    BY PageAssumption, FS_AddElement DEF Pages
  <2>3. RetryBudget \in Nat /\ remainingBudget \in 0..RetryBudget /\ calls \in Nat
    BY Defaults DEF CountType
  <2> QED
    BY <2>1, <2>2, <2>3 DEF CallsPaid, CallsBounded
<1> QED
  BY <1>1, <1>2, NextCallsPaid, CountsTyped, PTL DEF Spec

-----------------------------------------------------------------------------
(* The backoff.                                                             *)

\* A setting gives an initial wait above zero, and a maximal one that a duration holds.
LEMMA BackoffDefaults ==
    ASSUME cfg \in Configs
    PROVE  /\ InitialBackoff \in Nat \ {0} /\ MaxBackoff \in Nat
           /\ InitialBackoff <= MaxBackoff /\ MaxBackoff <= MaxDuration
<1>1. /\ cfg.initialBackoff \in Int /\ cfg.maxBackoff \in Int
      /\ cfg.initialBackoff <= MaxDuration /\ cfg.maxBackoff <= MaxDuration
      /\ MaxDuration \in Nat /\ 20 <= MaxDuration
  BY ConfigAssumption, DurationAssumption
<1>2. InitialBackoff \in Nat \ {0} /\ InitialBackoff <= MaxDuration
  BY <1>1 DEF InitialBackoff, Or
<1>3. Or(cfg.maxBackoff, 20) \in Nat /\ Or(cfg.maxBackoff, 20) <= MaxDuration
  BY <1>1 DEF Or
<1> QED
  BY <1>2, <1>3 DEF MaxBackoff

\* A product that a duration does not hold wraps around to a negative one.
LEMMA WrapDouble ==
    ASSUME NEW d \in Nat, d <= MaxDuration
    PROVE  /\ Wrap(d * 2) \in Int
           /\ Wrap(d * 2) = d * 2 \/ Wrap(d * 2) < 0
<1> DEFINE n == 2 * MaxDuration + 2
           x == d * 2 + MaxDuration + 1
<1>1. MaxDuration \in Nat /\ n \in Nat \ {0} /\ x \in 0..(2 * n - 1)
  BY DurationAssumption
<1>2. CASE x < n
  <2>1. x \in 0..(n - 1)
    BY <1>1, <1>2
  <2>2. x % n = x
    <3> HIDE DEF n, x
    <3> QED
      BY <1>1, <2>1
  <2> QED
    BY <1>1, <2>2 DEF Wrap
<1>3. CASE ~(x < n)
  <2>1. x \in n..(2 * n - 1)
    BY <1>1, <1>3
  <2>2. x % n = x - n
    <3> HIDE DEF n, x
    <3> QED
      BY <1>1, <2>1
  <2> QED
    BY <1>1, <2>2 DEF Wrap
<1> QED
  BY <1>2, <1>3

LEMMA NextBackoffBetween ==
    ASSUME cfg \in Configs, NEW b \in InitialBackoff..MaxBackoff
    PROVE  NextBackoff(b) \in InitialBackoff..MaxBackoff
<1>1. /\ InitialBackoff \in Nat \ {0} /\ MaxBackoff \in Nat
      /\ InitialBackoff <= MaxBackoff /\ MaxBackoff <= MaxDuration /\ MaxDuration \in Nat
  BY BackoffDefaults, DurationAssumption
<1>2. b \in Nat /\ b <= MaxDuration /\ InitialBackoff <= b
  BY <1>1
<1>3. Wrap(b * 2) \in Int /\ (Wrap(b * 2) = b * 2 \/ Wrap(b * 2) < 0)
  BY <1>2, WrapDouble
<1> QED
  BY <1>1, <1>2, <1>3 DEF NextBackoff

\* The defaults and the clamp make the jitter a percentage.
LEMMA JitterRange ==
    ASSUME cfg \in Configs
    PROVE  Jitter \in 1..100
<1>1. cfg.jitter \in Int
  BY ConfigAssumption
<1> QED
  BY <1>1 DEF Jitter, Or

\* The next backoff is twice this one or the maximal one, so as many times the initial
\* one as there are attempts, or the maximal one.
LEMMA NextBackoffGrows ==
    ASSUME cfg \in Configs, NEW b \in InitialBackoff..MaxBackoff, NEW n \in Nat \ {0},
           b = MaxBackoff \/ InitialBackoff * n <= b
    PROVE  NextBackoff(b) = MaxBackoff \/ InitialBackoff * (n + 1) <= NextBackoff(b)
<1> DEFINE i == InitialBackoff
           m == MaxBackoff
<1>1. i \in Nat \ {0} /\ m \in Nat /\ i <= m /\ m <= MaxDuration /\ MaxDuration \in Nat
  BY BackoffDefaults, DurationAssumption
<1>2. b \in Nat /\ b <= MaxDuration /\ i <= b /\ b <= m
  BY <1>1
<1>3. Wrap(b * 2) \in Int /\ (Wrap(b * 2) = b * 2 \/ Wrap(b * 2) < 0)
  BY <1>2, WrapDouble
<1>4. NextBackoff(b) = m \/ NextBackoff(b) = b * 2
  BY <1>1, <1>2, <1>3 DEF NextBackoff
<1>5. CASE b = m
  BY <1>1, <1>3, <1>5 DEF NextBackoff
<1>6. CASE i * n <= b
  <2>1. \A x, y, z \in Nat : x * y <= z /\ x <= z => x * (y + 1) <= z * 2
    <3> TAKE x, y, z \in Nat
    <3>1. x * (y + 1) = x * y + x /\ x * y \in Nat
      OBVIOUS
    <3> QED
      BY <3>1
  <2>2. i * (n + 1) <= b * 2
    BY <1>1, <1>2, <1>6, <2>1
  <2> QED
    BY <1>4, <2>2
<1> QED
  BY <1>5, <1>6

\* The wait that the retry drew fits its backoff.
LEMMA DelayType ==
    ASSUME cfg \in Configs, NEW b \in InitialBackoff..MaxBackoff, NEW d \in JitteredBackoff(b)
    PROVE  /\ d \in 0..MaxDuration
           /\ 100 * d <= b * (100 + Jitter)
           /\ \/ b * (100 - Jitter) < 100 * (d + 1)
              \/ d = 0 /\ b * (100 + Jitter) > 100 * MaxDuration
<1>1. b \in Nat \ {0} /\ MaxDuration \in Nat /\ b <= MaxDuration
  BY BackoffDefaults, DurationAssumption
<1>2. Jitter \in 1..100
  BY JitterRange
<1>3. CASE d \in Jittered(b) /\ d <= MaxDuration
  BY <1>1, <1>2, <1>3 DEF Jittered
<1>4. CASE d = 0 /\ b * (100 + Jitter) > 100 * MaxDuration
  BY <1>1, <1>2, <1>4
<1>5. CASE d = MaxDuration /\ b * (100 + Jitter) > 100 * MaxDuration
  <2>1. \A x, y, j \in Nat : x <= y /\ j <= 100 => x * (100 - j) <= 100 * y
    <3> TAKE x, y, j \in Nat
    <3>1. x * (100 - j) = 100 * x - x * j /\ x * j \in Nat
      OBVIOUS
    <3> QED
      BY <3>1
  <2>2. b * (100 - Jitter) <= 100 * MaxDuration
    BY <1>1, <1>2, <2>1
  <2>3. \A x, y \in Int : x <= 100 * y => x < 100 * (y + 1)
    OBVIOUS
  <2>4. b * (100 - Jitter) \in Int
    BY <1>1, <1>2
  <2>5. b * (100 - Jitter) < 100 * (MaxDuration + 1)
    BY <1>1, <2>2, <2>3, <2>4
  <2>6. \A x, y \in Int : x > y => y <= x
    OBVIOUS
  <2>7. 100 * MaxDuration \in Int /\ b * (100 + Jitter) \in Int
    BY <1>1, <1>2
  <2>8. 100 * d <= b * (100 + Jitter)
    BY <1>5, <2>6, <2>7
  <2>9. d \in 0..MaxDuration
    BY <1>1, <1>5
  <2> QED
    BY <1>5, <2>5, <2>8, <2>9
<1> QED
  BY <1>3, <1>4, <1>5 DEF JitteredBackoff

\* A retry that waits is not the last attempt, and its wait was drawn for its backoff.
FullType ==
    /\ CountType
    /\ ctxDone \in BOOLEAN /\ outcome \in Outcomes
    /\ records \in Seq(Pages)
    /\ attempt \in 1..MaxAttempts
    /\ pc \in {"wait", "slept"} => attempt # MaxAttempts
    /\ backoff \in InitialBackoff..MaxBackoff
    /\ backoff = MaxBackoff \/ InitialBackoff * attempt <= backoff
    /\ delay \in 0..MaxDuration
    /\ pc \in {"wait", "slept"} => delay \in JitteredBackoff(backoff)
    /\ rounds \in 0..MaxRounds

LEMMA InitFullType == Init => FullType
<1> SUFFICES ASSUME Init
             PROVE  FullType
  OBVIOUS
<1>1. MaxAttempts \in Nat \ {0} /\ MaxRounds \in Nat
  BY Defaults, PageAssumption DEF Init
<1>2. InitialBackoff \in InitialBackoff..MaxBackoff
  BY BackoffDefaults DEF Init
<1>3. records \in Seq(Pages)
  BY EmptySeq DEF Init
<1>4. CountType
  BY InitCountType
<1>5. attempt \in 1..MaxAttempts /\ rounds \in 0..MaxRounds
  BY <1>1 DEF Init
<1>6. backoff \in InitialBackoff..MaxBackoff
  BY <1>2 DEF Init
<1>7. InitialBackoff * attempt <= backoff /\ delay \in 0..MaxDuration
  BY BackoffDefaults, DurationAssumption DEF Init
<1> QED
  BY <1>3, <1>4, <1>5, <1>6, <1>7 DEF Init, FullType, Outcomes

LEMMA NextFullType == FullType /\ [Next]_vars => FullType'
<1> SUFFICES ASSUME FullType, [Next]_vars
             PROVE  FullType'
  OBVIOUS
<1>1. CountType' /\ cfg \in Configs
  BY NextCountType DEF FullType, CountType
<1>2. cfg' = cfg
  BY DEF Next, RejectRequest, Collect, Respond, PageOK, CallFails, Throttled, Step, GiveUp,
         Retry, Sleep, WaitCancelled, NextAttempt, ContextDone, vars
<1>3. /\ MaxAttempts' = MaxAttempts /\ InitialBackoff' = InitialBackoff
      /\ MaxBackoff' = MaxBackoff
      /\ \A b : JitteredBackoff(b)' = JitteredBackoff(b)
  BY <1>2 DEF MaxAttempts, InitialBackoff, MaxBackoff, Or, JitteredBackoff, Jittered, Jitter
<1>4. /\ MaxAttempts \in Nat \ {0} /\ MaxRounds \in Nat
      /\ InitialBackoff \in InitialBackoff..MaxBackoff
      /\ InitialBackoff * 1 <= InitialBackoff /\ 0 \in 0..MaxDuration
  BY <1>1, Defaults, BackoffDefaults, PageAssumption, DurationAssumption
<1>5. nextToken \in Pages
  BY DEF FullType, CountType
<1>6. Append(records, nextToken) \in Seq(Pages) /\ <<>> \in Seq(Pages)
  BY <1>5 DEF FullType
<1> USE <1>1, <1>3, <1>4, <1>6 DEF FullType, Outcomes, collectVars, retryVars, counters
<1>7. CASE RejectRequest \/ Collect
  <2>1. rounds' \in 0..MaxRounds
    <3>1. rounds' = rounds + 1 /\ rounds < MaxRounds
      BY <1>7 DEF RejectRequest, Collect
    <3> QED
      BY <3>1
  <2>2. ctxDone' \in BOOLEAN
    BY <1>7 DEF RejectRequest, Collect
  <2>3. records' = <<>>
    BY <1>7 DEF RejectRequest, Collect
  <2>4. \/ UNCHANGED <<pc, attempt, backoff, delay>>
        \/ pc' = "call" /\ attempt' = 1 /\ backoff' = InitialBackoff /\ delay' = 0
    BY <1>7 DEF RejectRequest, Collect
  <2>5. outcome' \in Outcomes
    BY <1>7 DEF RejectRequest, Collect
  <2> QED
    BY <2>1, <2>2, <2>3, <2>4, <2>5
<1>8. CASE PageOK
  <2>1. UNCHANGED <<rounds, ctxDone>> /\ records' = Append(records, nextToken)
    BY <1>8 DEF PageOK, Return, BeginPage
  <2>2. \/ pc' = "idle" /\ UNCHANGED <<attempt, backoff, delay>>
        \/ pc' = "call" /\ attempt' = 1 /\ backoff' = InitialBackoff /\ delay' = 0
    BY <1>8 DEF PageOK, Return, BeginPage
  <2>3. outcome' \in Outcomes
    BY <1>8 DEF PageOK, Return, BeginPage
  <2> QED
    BY <2>1, <2>2, <2>3
<1>9. CASE CallFails \/ Throttled
  BY <1>9 DEF CallFails, Throttled, Return
<1>10. CASE GiveUp \/ WaitCancelled
  BY <1>10 DEF GiveUp, WaitCancelled, Return
<1>11. CASE Retry \/ Sleep
  <2>1. CASE Retry
    <3>1. /\ pc' = "wait" /\ delay' \in JitteredBackoff(backoff) /\ attempt # MaxAttempts
          /\ UNCHANGED <<ctxDone, outcome, records, attempt, backoff, rounds>>
      BY <2>1 DEF Retry
    <3>2. delay' \in 0..MaxDuration
      BY <3>1, DelayType
    <3>3. delay' \in JitteredBackoff(backoff)'
      BY <3>1
    <3> QED
      BY <3>1, <3>2, <3>3
  <2>2. CASE Sleep
    BY <2>2 DEF Sleep
  <2> QED
    BY <1>11, <2>1, <2>2
<1>12. CASE NextAttempt
  <2>1. /\ pc' = "call" /\ attempt' = attempt + 1 /\ delay' = 0
        /\ backoff' = NextBackoff(backoff) /\ pc = "slept"
        /\ UNCHANGED <<ctxDone, outcome, records, rounds>>
    BY <1>12 DEF NextAttempt
  <2>2. backoff' \in InitialBackoff..MaxBackoff
    BY <2>1, NextBackoffBetween
  <2>3. backoff' = MaxBackoff \/ InitialBackoff * attempt' <= backoff'
    <3>1. PICK n \in Nat \ {0} : n = attempt
      OBVIOUS
    <3>2. PICK b \in InitialBackoff..MaxBackoff : b = backoff
      OBVIOUS
    <3>3. b = MaxBackoff \/ InitialBackoff * n <= b
      BY <3>1, <3>2
    <3>4. NextBackoff(b) = MaxBackoff \/ InitialBackoff * (n + 1) <= NextBackoff(b)
      BY <3>3, NextBackoffGrows
    <3> QED
      BY <2>1, <3>1, <3>2, <3>4
  <2>4. attempt' \in 1..MaxAttempts
    BY <2>1
  <2> QED
    BY <2>1, <2>2, <2>3, <2>4
<1>13. CASE ContextDone \/ UNCHANGED vars
  BY <1>13 DEF ContextDone, vars
<1> QED
  BY <1>7, <1>8, <1>9, <1>10, <1>11, <1>12, <1>13 DEF Next, Respond, Step

LEMMA FullTyped == Spec => []FullType
BY InitFullType, NextFullType, PTL DEF Spec

\* The collector is type correct: no attempt beyond the last one begins, and the budget
\* of a Collect never falls below zero.
THEOREM TypeCorrect == Spec => []TypeOK
<1>1. FullType => TypeOK
  BY BackoffDefaults DEF FullType, CountType, TypeOK
<1> QED
  BY <1>1, FullTyped, PTL

\* The waits grow with the attempts of a page, within their jitter, for every setting a
\* duration holds: nextBackoff checks its product for an overflow, and the one that is left
\* is that of the jitter.
THEOREM WaitsGrow == Spec => []WaitGrows
<1>1. FullType => WaitGrows
  <2> SUFFICES ASSUME FullType, pc \in {"wait", "slept"}
               PROVE  WaitGrows
    BY DEF WaitGrows
  <2> DEFINE i == InitialBackoff
             m == MaxBackoff
             b == backoff
             j == Jitter
             n == attempt
  <2>1. /\ i \in Nat /\ m \in Nat /\ j \in 1..100 /\ b \in Nat /\ b <= m /\ n \in Nat
        /\ delay \in Nat
    <3>1. cfg \in Configs
      BY DEF FullType, CountType
    <3>2. i \in Nat /\ m \in Nat /\ j \in 1..100 /\ MaxAttempts \in Nat
      BY <3>1, BackoffDefaults, JitterRange, Defaults
    <3> QED
      BY <3>2, DurationAssumption DEF FullType
  <2>2. /\ 100 * delay <= b * (100 + j)
        /\ \/ b * (100 - j) < 100 * (delay + 1)
           \/ delay = 0 /\ b * (100 + j) > 100 * MaxDuration
    BY DelayType DEF FullType, CountType
  <2>3. b = m \/ i * n <= b
    BY DEF FullType
  <2> HIDE DEF i, m, b, j, n
  <2>4. \A x, y, z \in Nat : x <= y => x * z <= y * z
    OBVIOUS
  <2>5. b * (100 + j) <= m * (100 + j) /\ (i * n <= b => i * n * (100 - j) <= b * (100 - j))
    <3>1. 100 + j \in Nat /\ 100 - j \in Nat /\ i * n \in Nat
      BY <2>1
    <3> QED
      BY <2>1, <2>4, <3>1
  <2>6. /\ b * (100 + j) \in Int /\ m * (100 + j) \in Int /\ b * (100 - j) \in Int
        /\ i * n * (100 - j) \in Int /\ 100 * delay \in Int /\ 100 * (delay + 1) \in Int
    BY <2>1
  <2>7. \A x, y, z \in Int : (x <= y /\ y <= z => x <= z) /\ (x <= y /\ y < z => x < z)
    OBVIOUS
  <2>8. 100 * delay <= m * (100 + j)
    BY <2>2, <2>5, <2>6, <2>7
  <2>9. b * (100 - j) < 100 * (delay + 1) =>
            m * (100 - j) < 100 * (delay + 1) \/ i * n * (100 - j) < 100 * (delay + 1)
    BY <2>3, <2>5, <2>6, <2>7
  <2> QED
    BY <2>2, <2>8, <2>9 DEF WaitGrows, i, m, b, j, n
<1> QED
  BY <1>1, FullTyped, PTL

-----------------------------------------------------------------------------
(* The pages.                                                               *)

\* p follows the tokens of c from the first page, and has used those of seen.
IsPath(p, seen, c) ==
    /\ Len(p) > 0 /\ p[1] = First
    /\ \A i \in 1..Len(p) - 1 : p[i + 1] = c[p[i]]
    /\ \A i \in 2..Len(p) : p[i] \in seen
    /\ \A t \in seen : \E i \in 1..Len(p) : p[i] = t
    /\ \A i, j \in 1..Len(p) : p[i] = p[j] => i = j

\* The pages that were collected, and the one that is fetched.
Path == Append(records, nextToken)

PathInv ==
    /\ pc # "idle" => outcome = "none" /\ IsPath(Path, seenToken, chain)
    /\ CompleteOnSuccess

LEMMA PathLength ==
    ASSUME FullType
    PROVE  /\ Path \in Seq(Pages) /\ Len(Path) \in Nat \ {0}
           /\ \A i \in 1..Len(Path) : Path[i] \in Pages
           /\ Path[Len(Path)] = nextToken
<1>1. nextToken \in Pages /\ records \in Seq(Pages)
  BY DEF FullType, CountType
<1>2. /\ Path \in Seq(Pages) /\ Len(Path) = Len(records) + 1
      /\ Path[Len(records) + 1] = nextToken
  BY <1>1, AppendProperties DEF Path
<1>3. Len(records) \in Nat
  BY <1>1, LenProperties
<1> QED
  BY <1>2, <1>3, ElementOfSeq

\* One page alone is a path.
LEMMA PathStarts ==
    ASSUME NEW c
    PROVE  IsPath(Append(<<>>, First), {}, c)
<1>1. Append(<<>>, First) = <<First>>
  OBVIOUS
<1>2. Len(<<First>>) = 1 /\ <<First>>[1] = First
  OBVIOUS
<1> DEFINE p == <<First>>
<1> HIDE DEF p
<1>3. Len(p) = 1 /\ p[1] = First
  BY <1>2 DEF p
<1>4. IsPath(p, {}, c)
  BY <1>3 DEF IsPath
<1> QED
  BY <1>1, <1>4 DEF p

\* A token that was not seen leads to a page that is not on the path.
LEMMA PathExtends ==
    ASSUME NEW p \in Seq(Pages), NEW seen \in SUBSET Tokens, NEW c, IsPath(p, seen, c),
           NEW next \in Tokens \ seen, next = c[p[Len(p)]]
    PROVE  IsPath(Append(p, next), seen \cup {next}, c)
<1> DEFINE r == Append(p, next)
           n == Len(p)
<1>1. next \in Pages /\ next # First
  BY PageAssumption DEF Pages
<1>2. /\ Len(r) = n + 1 /\ n \in Nat /\ n > 0
      /\ \A i \in 1..n : r[i] = p[i]
      /\ r[n + 1] = next
  BY <1>1, AppendProperties, LenProperties DEF IsPath
<1>3. \A i \in 1..n : p[i] # next
  <2> TAKE i \in 1..n
  <2>1. CASE i = 1
    BY <2>1, <1>1 DEF IsPath
  <2>2. CASE i # 1
    <3>1. i \in 2..n
      BY <2>2, <1>2
    <3> QED
      BY <3>1 DEF IsPath
  <2> QED
    BY <2>1, <2>2
<1> HIDE DEF r
<1>4. r[1] = First
  BY <1>2 DEF IsPath
<1>5. \A i \in 1..Len(r) - 1 : r[i + 1] = c[r[i]]
  <2> TAKE i \in 1..Len(r) - 1
  <2>1. CASE i = n
    BY <2>1, <1>2
  <2>2. CASE i # n
    <3>1. i \in 1..n - 1 /\ i \in 1..n /\ i + 1 \in 1..n
      BY <2>2, <1>2
    <3> QED
      BY <3>1, <1>2 DEF IsPath
  <2> QED
    BY <2>1, <2>2
<1>6. \A i \in 2..Len(r) : r[i] \in seen \cup {next}
  <2> TAKE i \in 2..Len(r)
  <2>1. CASE i = n + 1
    BY <2>1, <1>2
  <2>2. CASE i # n + 1
    <3>1. i \in 2..n /\ i \in 1..n
      BY <2>2, <1>2
    <3> QED
      BY <3>1, <1>2 DEF IsPath
  <2> QED
    BY <2>1, <2>2
<1>7. \A t \in seen \cup {next} : \E i \in 1..Len(r) : r[i] = t
  <2> TAKE t \in seen \cup {next}
  <2>1. CASE t = next
    <3>1. n + 1 \in 1..Len(r)
      BY <1>2
    <3> QED
      BY <2>1, <3>1, <1>2
  <2>2. CASE t \in seen
    <3>1. PICK i \in 1..n : p[i] = t
      BY <2>2 DEF IsPath
    <3>2. i \in 1..Len(r) /\ r[i] = t
      BY <3>1, <1>2
    <3> QED
      BY <3>2
  <2> QED
    BY <2>1, <2>2
<1>8. \A i, j \in 1..Len(r) : r[i] = r[j] => i = j
  <2> TAKE i, j \in 1..Len(r)
  <2>1. CASE i \in 1..n /\ j \in 1..n
    BY <2>1, <1>2 DEF IsPath
  <2>2. CASE i \in 1..n /\ j = n + 1
    BY <2>2, <1>2, <1>3
  <2>3. CASE i = n + 1 /\ j \in 1..n
    BY <2>3, <1>2, <1>3
  <2> QED
    BY <2>1, <2>2, <2>3, <1>2
<1> QED
  BY <1>2, <1>4, <1>5, <1>6, <1>7, <1>8 DEF IsPath, r

LEMMA NextPathInv == FullType /\ PathInv /\ [Next]_vars => PathInv'
<1> SUFFICES ASSUME FullType, PathInv, [Next]_vars
             PROVE  PathInv'
  OBVIOUS
<1> USE DEF PathInv, collectVars
<1>1. CASE RejectRequest
  BY <1>1 DEF RejectRequest, CompleteOnSuccess, FullType, Path
<1>2. CASE Collect
  <2>1. /\ Path' = Append(<<>>, First) /\ seenToken' = {} /\ outcome' = "none"
    BY <1>2 DEF Collect, Path
  <2>2. IsPath(Append(<<>>, First), {}, chain')
    BY PathStarts
  <2> QED
    BY <2>1, <2>2 DEF CompleteOnSuccess, IsPath
<1>3. CASE PageOK
  <2> DEFINE next == chain[nextToken]
  <2>1. pc = "call" /\ outcome = "none" /\ IsPath(Path, seenToken, chain) /\ chain' = chain
    BY <1>3 DEF PageOK
  <2>2. /\ Path \in Seq(Pages) /\ Len(Path) \in Nat \ {0}
        /\ \A i \in 1..Len(Path) : Path[i] \in Pages
        /\ Path[Len(Path)] = nextToken
    BY PathLength
  <2>3. seenToken \in SUBSET Tokens /\ next \in Tokens \cup {NoToken}
    BY DEF FullType, CountType
  <2>4. CASE next = NoToken \/ next \in seenToken
    <3>1. pc' = "idle" /\ records' = Path
      BY <1>3, <2>4 DEF PageOK, Return, Path
    <3>2. /\ Path # <<>> /\ Path[1] = First
          /\ \A i \in 1..Len(Path) - 1 : Path[i + 1] = chain[Path[i]]
          /\ \A i, j \in 1..Len(Path) : Path[i] = Path[j] => i = j
      BY <2>1, <2>2, AppendProperties DEF IsPath, Path, FullType, CountType
    <3>3. chain[Path[Len(Path)]] \in {NoToken} \cup {Path[i] : i \in 1..Len(Path)}
      BY <2>1, <2>2, <2>4 DEF IsPath
    <3> HIDE DEF next
    <3> QED
      BY <2>1, <3>1, <3>2, <3>3 DEF CompleteOnSuccess
  <2>5. CASE next # NoToken /\ next \notin seenToken
    <3>1. /\ records' = Path /\ nextToken' = next /\ seenToken' = seenToken \cup {next}
          /\ outcome' = outcome
      BY <1>3, <2>5 DEF PageOK, BeginPage, Path
    <3>2. Path' = Append(Path, next)
      BY <3>1 DEF Path
    <3>3. next \in Tokens \ seenToken /\ next = chain[Path[Len(Path)]]
      BY <2>2, <2>3, <2>5
    <3> HIDE DEF next
    <3>4. IsPath(Append(Path, next), seenToken \cup {next}, chain)
      BY <2>1, <2>2, <2>3, <3>3, PathExtends
    <3> QED
      BY <2>1, <3>1, <3>2, <3>4 DEF CompleteOnSuccess, IsPath
  <2> QED
    BY <2>4, <2>5
<1>4. CASE CallFails \/ GiveUp \/ WaitCancelled
  BY <1>4 DEF CallFails, GiveUp, WaitCancelled, Return, CompleteOnSuccess
<1>5. CASE Throttled \/ Retry \/ Sleep \/ NextAttempt \/ ContextDone \/ UNCHANGED vars
  <2>1. UNCHANGED <<chain, nextToken, seenToken, records, outcome>>
    BY <1>5 DEF Throttled, Retry, Sleep, NextAttempt, ContextDone, vars
  <2>2. pc' # "idle" => pc # "idle"
    BY <1>5 DEF Throttled, Retry, Sleep, NextAttempt, ContextDone, vars
  <2>3. UNCHANGED <<Path, CompleteOnSuccess>>
    BY <2>1 DEF Path, CompleteOnSuccess
  <2> QED
    BY <2>1, <2>2, <2>3 DEF IsPath
<1> QED
  BY <1>1, <1>2, <1>3, <1>4, <1>5 DEF Next, Respond, Step

\* A Collect that succeeds has read its window to the end, each page once, however the
\* service chooses its tokens (Collect and the tokens it has seen).
THEOREM CompleteCollect == Spec => []CompleteOnSuccess
<1>1. Init => PathInv
  BY DEF Init, PathInv, CompleteOnSuccess
<1>2. PathInv => CompleteOnSuccess
  BY DEF PathInv
<1> QED
  BY <1>1, <1>2, NextPathInv, FullTyped, PTL DEF Spec
=============================================================================
