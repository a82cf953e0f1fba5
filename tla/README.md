# Flow: TLA+ models and proofs

Flow polls CloudWatch logs and metrics, keeps an incident timeline and a bounded
store of signals in memory, answers two HTTP queries over them and, when
configured, archives every new signal in files. This directory holds TLA+ modules
of the parts that carry its logic, TLC configurations that check small instances,
and TLAPS proofs for all values of the constants. Source paths are relative to the
root of the repository.

To check: `tlc -workers 2 -config <cfg> <MC module>` for the runs below, and
`tlapm <module>` for each `*Proofs.tla`.

## Inventory

| Part | State | Operations | What makes it correct |
|---|---|---|---|
| Logs ingestion loop, `internal/ingestion/logs_timeline.go` | `lastEnd`, `seenIDs` | `Run`, `runTick`, `ingestOnce`, `pruneSeen` | no gap between the windows of successful polls; no event twice within the retention; bounded memory; `Run` returns |
| Metrics ingestion loop, `internal/ingestion/metrics_timeline.go` | `seenIDs` | the same | a breach is reported once although each poll re-reads its window; late points within reach are reported |
| Logs collector, `internal/telemetry/cloudwatchlogs/collector.go` | four counters; per call: pages, token set, retry budget | `Collect`, `filterWithRetry`, `waitBackoff` | all pages or an error; bounded requests; waits that grow; counters that add up; returns |
| Metrics collector, `internal/telemetry/cloudwatch/collector.go` | four counters; per call: queries, retry budget | `Collect`, `getMetricDataWithRetry`, `buildMetricQueries`, `metricPointsFromOutput` | the same for one request; every point goes to the series it belongs to |
| Incident timeline, `internal/analyzer/timeline/service.go` | `events` under a lock | `AddEvents`, `QueryTimeline` | a client that reads page by page misses nothing |
| Signal store, `internal/telemetry/signals/store.go` | two bounded buffers under a lock | `AddMetricPoints`, `AddLogRecords`, two queries | keeps the newest, in order |
| Correlation, `internal/graph/correlation.go`, `internal/correlation/service.go` | none between queries | `BuildCorrelationGraph`, `QueryGraph` | related pairs are reported; no dangling edges under filters and limits |
| HTTP API, `internal/httpserver/` | none | two handlers, integer and time parsing | every documented request is answered as documented |
| Archive, `internal/telemetry/archive/sink.go`, `internal/telemetry/storage/local.go` | two files for each object | `Put`; `List`, `Delete`, `ApplyRetention`, which nothing in the program calls yet | fresh objects stay, a sweep deletes the old ones, nothing is left that no sweep can see |
| S3 store, `internal/telemetry/storage/s3.go` | a bucket | the same interface | the same; nothing constructs it |
| Process, `cmd/flow/main.go` | `runCtx`, `sigCtx`, the server and its error channel | start, fan-out to the sinks, shutdown | it starts what its settings say or nothing; delivered batches reach all sinks but for what the end of the process cuts; it ends |
| Configuration, `internal/ingestion/runtime.go`, `internal/telemetry/archive/runtime.go` | none | `Validate`, `parseMetricTargets` | a wrong setting is refused before anything runs; accepted targets are asked for |
| Log line parser, AWS sessions and clients, tracing | none | pure functions and I/O | - |

How they interact: `main` starts one goroutine per ingestor. Each calls its
collector synchronously, then `AddEvents` on the shared timeline, then the fan-out of
signal store and archive sink. HTTP handlers run concurrently with them and read the
timeline and the store under read locks. Shutdown cancels one context and does not
wait for the ingestors.

What is hard here: a window and a memory of identities that are driven by a wall clock
(`now().UTC()` drops the monotonic reading) and must fit together across failures;
pagination with retries under a context that ends at any time; a process that starts and
ends step by step around goroutines nobody waits for; a client that pages
through a list that grows at its front; two buffers that are read under separate
locks; two files per object, written without a lock and across crashes, and deleted so by
whoever calls the retention.
`PROJECT.json` lists each hazard at its line with the properties that cover it.

## Modules

| Module | Models | Correspondence |
|---|---|---|
| `LogsIngestor` | the log loop, its source, its clock | `pc` is the position in `Run`/`ingestOnce`. `StartPoll` fixes the window and calls Collect; `CollectOK` moves `lastEnd`, runs `pruneSeen` and deduplicates; `AddEvents` and `AddLogRecords` are the two appends; `Stop` is the branch of `ctx.Done()`. The environment is `Tick`, `StepBack`, `Appear` (a record becomes visible, late or not) and `Cancel`. |
| `LogsCollector` | `NewCollector`, `Collect`, `filterWithRetry`, `waitBackoff` | One action per step that another outcome can follow: request, answer, throttled, give up or retry, sleep, check of the context. `delay` is the jittered wait that `Retry` chooses. `chain` is the service: which token each page carries, any function, cycles included. |
| `Targets` | `parseMetricTargets`, `metricSpecsForTarget`, `buildMetricQueries`, `metricPointsFromOutput` | Operators only; a token is its type and its value, a name a number in the order of the strings. `ParseTargets` is the set of its results, which is empty for an error; `SortStable` says what `slices.SortStableFunc` returns, not how. `MetricsCollector` and `Flow` extend it. |
| `MetricsCollector` | the metrics collector: `NewCollector`, `Collect`, `getMetricDataWithRetry` | As `LogsCollector`, for one request. `Outputs` is the service: up to `MaxResults` results in any order, of uneven lengths, some repeated, missing or not asked for. |
| `MetricsIngestor` | the metrics loop with the window of `cloudwatch.Collect` | as `LogsIngestor`, without a watermark; the end of the window is read before the request, the time kept in `seenIDs` after it. An answer may be truncated (`Collected`): the collector reads neither `NextToken` nor `PartialData`. |
| `Feed` | what a loop promises to those behind it | The abstract specification: batches appear in the timeline one after the other and each reaches the sink before the next. `AtMostOnce` is the stronger promise of the metrics loop. |
| `Flow` | `run`, `startTimelineIngestion`, the server goroutine, the fan-out, the sink | `pc` is the position in `run`, an action each place where it can fail or something can come between. A loop is seen from outside: `Poll` finds a batch, `AddEvents`, `AddToStore` and one `Put` per signal take it on. The environment is `Signal`, the HTTP server and its requests. |
| `Timeline` | service, handler, a client that walks the pages | `AddEvents` and each request are atomic because of the lock and the private copy. A page is the set of positions whose rank in the sorted copy lies in the slice; the offset wraps as an `int` does. |
| `Correlation` | signal store, query handler, `QueryGraph`, `BuildCorrelationGraph` | Appends may come between `ReadMetrics` and `ReadLogs`. Node ids are triples that sort by kind and then by event id; the number of the append stands for the rest of a metric's id, on whose order no property depends. |
| `LocalStore` | sink, `Put`, `ApplyRetention`, crash | Every open, write and removal of a file is a step, and the reading of the clock between them (`PutStamp`); `Torn` is a file between `O_TRUNC` and the write. `List` reads the metadata of one object per step, or takes the modification time for it. The program only puts: `ApplyRetention` has a caller of its own, at any time, as the interface allows. |
| `ObjectStore` | what the interface in `storage/store.go` promises the archive | The abstract specification: an object is written, acknowledged under a time of its Put, unchanged until its data is older than the retention, then gone as a whole. Nothing is promised of a Put that was cut short or met a sweep. |

`MC*.tla` instantiate them for TLC; `*Proofs.tla` hold the theorems. Names follow the
source. Variables marked `history` are not in the code: they record what the properties
speak of. Definitions that begin with "Mutant of" are plausible mistakes in the
definition they precede; nothing in a specification uses them, and each shows that a
property would notice it.

## Runs

| Run | Shows |
|---|---|
| `logs_ingestor` | `PunctualRecordsCovered`: a record that becomes visible no later than its timestamp is delivered once the watermark passes it, whatever polls fail and although the clock may be stepped back. `NoDuplicateWithinRetention`: a second append needs a window longer than the retention. `SeenWithinRetention`: `seenIDs` stays bounded. `ImplementsFeed`: whole batches in the timeline, then in the sink. |
| `logs_live` | `PunctualEventuallyDelivered` and `CancelledRunReturns` under fairness. |
| `logs_collector` | `CompleteOnSuccess`: success means every page once, in order, also when tokens repeat. `CallsBounded`: requests are at most pages plus the retry budget. `CountersBalanced`: throttled responses are retries or drops, at each step of the caller. `WaitGrows`: the wait before a retry grows with the attempts up to the maximum, within its jitter; durations end at 31 units, so that doubling overflows, and jitter too, where it may leave no wait. `CollectReturns`, under fairness. |
| `metrics_ingestor` | `NoDuplicateBreach`; `LateBreachReported`, by the first complete answer over the breach, truncated ones in between notwithstanding; `ImplementsFeed` with `AtMostOnce`. |
| `metrics_collector` | `TargetsKeptApart`: what the parser accepts is asked for, under series of its own. `PointsAttributed`: a point keeps its series and its own timestamp. `RetriesAsLogsCollector`: the retry loop implements `LogsCollector` with one page, fairness included, so what was shown of that one holds of this one. |
| `flow` | `ConfigurationHonoured`: a wrong setting is refused before a loop has started, and the server runs with the loops of its mode. `LossBounded`: wherever the process ends, killed or not, store and archive lack the batches in flight and the failed Puts only. `CleanExit`. `LoopsImplementFeed`: fan-out and shutdown around the loops let no batch pass another. `ShutdownEnds`, under fairness. |
| `timeline` | `NoOmission` with concurrent appends; `ExactWhenQuiet`, as long as nothing is appended to the range of the walk: no event on two pages, the documented order with ties by id, and each event on a page when the walk begins with the first; `WalkAnswered`: a walk from the first page never meets the overflow. |
| `timeline_pages` | violated: see Findings. |
| `correlation` | `NewestKept`, `PairsReported` in spite of the two separate reads, `ResultClosed` under every filter and limit. |
| `correlation_skew` | violated: see Findings. |
| `local_store` | `ImplementsObjectStore`: the two files of each key are a store whose objects come, stay until they are too old, and go at once. The object of a key goes with its data file (`Object`); it is `Unsure` where a sweep overlapped the last Put, or that Put was cut short, and then nothing is promised of it. `SweepComplete`: a sweep that ends has deleted what was too old, whatever earlier ones left. `NoOrphans`: only a Delete cut between its two removals, or a sweep beside a Put, leaves metadata alone. All with overlapping sweeps and Puts, dry runs, prefixes, failures and a crash. |

Bounds, and why they are enough. Time is in small units and only differences are
compared with window, retention and interval, so what counts is that the clock can run past
the retention (7 against 6 for logs, 14 against 12 for metrics) and that one correction of the clock
falls anywhere in it; `MaxTime`, `MaxBacks`, `MaxSkew` and `MaxLate` bound these. Two
records show a batch that is partly new; one is enough for deduplication and
liveness, as records do not influence each other. Three pages give every chain, including
pages that name themselves and cycles of two; `MCConfigs` takes
the defaults, a budget below and above the attempts of a page, a backoff that overflows when
it is doubled and one whose jitter does, a maximal backoff below the initial one, and jitter
that is defaulted, kept and clamped. Four events are two pages of the default
size, 2, and a remainder case for the sizes 1 and 3. Buffers of one
and of two and three appends of each kind, in batches of one and two, show trimming before
and between the two reads and a batch longer than the buffer. Two
signals that each loop finds once are a batch of two or two batches, one behind the other,
in both loops at once; the settings of `MCFlow` are every combination that is refused and
one of each mode that runs. The tokens of `MCMetricsCollector` are two services that share
a name, an instance named like a service, a target given twice, and every way to be
malformed; answers of up to two results show every order, a repeated and a missing one
(`PointsKeepSeries` is proved for every length); two rounds show counters that go on and a
budget that does not. Two
keys, three Puts and one crash show a Put of the same key after a sweep, a
sweep beside a Put of another key, and a crash in each step; the clock runs until
an object of the first unit is too old and one of the second is exactly at the cutoff.

Assumptions on the constants are named where they are declared. Three matter.
`ClockAssumption` bounds a correction of the wall clock against the retention, which
is at least 30 minutes (for metrics, together with request timeout and window): a
configuration or a clock outside it loses the guarantee. `IntAssumption` says that
a timeline fits into an `int`. `EventIdAssumption` says that CloudWatch event ids are
unique.

Fairness. `LogsIngestor`: weak for the ticker, for the end of a Collect (its context
has a timeout) and for straight-line code. Strong for a successful Collect: the
service does not refuse for ever, without which no delivery can be promised. Strong for `Stop`:
Go's `select` picks at random among ready cases, so a done context is picked in the end.
`LogsCollector` and `MetricsCollector`: weak for the answer of a request and for the caller's own steps.
`Flow`: weak for the goroutine of `main` alone, whose every wait has a timer (10 seconds for
credentials and for `Shutdown`, 5 for tracing); nothing is assumed of requests, disk or
CloudWatch. The other safety runs assume none. `CHECK_DEADLOCK FALSE` is used where the bounds, or a returned
`Run`, end a behaviour.

## Findings

- `timeline_pages`: `(page - 1) * pageSize` overflows (`timeline/service.go:120`); with a
  negative offset the slice expression panics, and the request, which
  `docs/api/incident-timeline.md` allows, gets no answer.
- `correlation_skew`: `max_skew_seconds=0` is documented as a tolerance, the default as what
  an omitted parameter means; `BuildCorrelationGraph` (`graph/correlation.go:204`) takes
  both for the default.

## Proofs

The theorems listed in `PROJECT.json` hold for all values of the constants under the named
assumptions. Each follows from an inductive invariant, as the property alone is not one:

- `LogsIngestorProofs`. Coverage needs that the running window joins the watermark or
  reaches back by a whole `Window` (`PollInv`), that the clock is within `MaxBack` of its
  highest reading (`ClockInv`), and that an identity is forgotten only a retention after
  the timestamp of its record (`SeenInv`). The last also gives
  `NoDuplicateWithinRetention`, by the lemma `RereadNeedsLongWindow`.
- `LogsCollectorProofs`. A request is paid for by a page or by the budget: `CallsPaid`
  counts tokens received and budget spent, including the retry that is still waiting. The
  pages collected and the one being fetched are a path of tokens without a repetition
  (`PathInv`), which `CompleteOnSuccess` alone does not say of a Collect that goes on. A
  doubled backoff either fits into a duration or turns negative (`WrapDouble`), so the
  backoff is the maximum or at least the initial one times the attempts, and `WaitGrows`
  follows by multiplying with the bounds of the jitter.
- `MetricsIngestorProofs`. A reported point is remembered, or too old for any window
  still to come (`SeenInv`); this is where the retention must cover a window, a request and
  two corrections of the clock.
- `TimelineProofs`. An append moves events only to higher ranks (`RankGrows`), so what has
  been on a page already asked for cannot come back to a later one unseen (`WalkInv`).
  Offsets of a walk stay exact (`OffsetExact`). While nothing is appended to the range,
  no rank moves (`QuietRanks`) and each page holds its own ranks, also when the walk begins
  behind the end; that none is left out is `NoOmission` again.
- `CorrelationProofs`. A buffer is the end of what was added (`Buffer`), and an append
  brings nothing old back (`NoneBack`); so what was there when the query began, and is there
  at its end, was there at the read between (`MetricsRead`, `LogsRead`). For the limits:
  node ids are in a strict total order and name their nodes (`NodeIdentity`, which needs the
  event ids to be unique), two ends name an edge, and no more than n elements of a finite
  ordered set have fewer than n before them (`FirstBounded`).
- The refinements. `LogsIngestorProofs` and `MetricsIngestorProofs` map every step of a loop
  to a step of `Feed` or to none: the batch is pending between the two appends, and a batch
  is part of the source because every record read has appeared. For metrics `AtMostOnce`
  comes from `BreachOnce`'s invariant. `FlowProofs` does the same for both loops inside the
  process.
- `MetricsCollectorProofs`. The retry loop maps step by step to that of `LogsCollector`
  (`RetryLoopsAgree`). `LogsCollectorProofs`, instantiated with that mapping, then gives
  the bound on the requests, the counters and the growth of the waits, without proving them
  again (`RequestsAndCounters`); the part of
  `TypeCorrect` about the retry loop comes from there too.
  The order of the sort keys is that of strings, a strict total one (`LessTransitive`,
  `LessTotal`), so a stable sort has one result (`SortOnce`): the number of targets before a
  target is its place (`PlaceBijection`). With it, the parser refuses malformed lists and no
  others (`ParserDecides`), which the set of results in `ParseTargets` leaves open.
  What `FlattenSeq` puts together is characterised without unfolding it (`FlattenType`,
  `FlattenExists`), so a target comes from a well-formed token (`ParsedValid`) and its
  series from its identity, from which the target can be read back (`SeriesApart`). The queries are
  numbered by their positions (`BuiltNumbered`), so an identifier leads back to its query
  (`DescriptorsNumbered`) and each point of an answer to the result it was zipped from
  (`AttributedPoint`, `PointsInv`).
  The induction over the length of the sequences is a first-order one: `Least` finds the
  first counterexample by the well-foundedness of strict inclusion between the intervals
  `1..n`, a theorem of the library about a relation and not about an operator.
- `FlowProofs`. The invariant says which loops can be on at each `pc` (`Configuration`), and
  that a batch is on its way exactly between its appends (`Loss`).
- `LocalStoreProofs`. For an object whose last Put returned and met no sweep, `Listing` and
  `Deleting` say that a sweep's list and candidates are exactly right about it; `PutAlone`
  says that a Put without a sweep has its files to itself, what they hold, and that its data
  is no younger than the time it stores: a cutoff that has passed the time of an object, or
  the modification time read in its place, has passed its data.
  `Refinement` maps each step to a change of at most one object (`OneRefines`) or of none
  (`KeptRefines`): removing the data is the step in which an object expires, for which
  `Deleting` and `CutoffBound` are needed, and removing the metadata changes nothing any more.

Every invariant and every safety refinement of the runs is proved. Only model-checked:
the liveness properties `PunctualEventuallyDelivered`, `CancelledRunReturns`,
`CollectReturns` and `ShutdownEnds`, and the fairness that `RetriesAsLogsCollector` states
beside its steps. They speak of ENABLED, which is out of reach of the prover.

## Not modelled

- Data: severity, messages, keys and attribute maps; the filter pattern and the record limit of a request. Two events differ by time and
  identity only.
- The log line parser (`cloudwatchlogs/parser.go`): it decodes one line and keeps no state; what it
  finds goes into attributes no other part decides by.
- The S3 store: `buildArchiveSink` knows the modes `disabled` and `local`, so no behaviour of
  the program reaches it; `ObjectStore` is what it would have to implement.
- Configuration: durations, limits and thresholds with their defaults are the CONSTANTS of
  the modules, so a value that parses to something unintended (`NaN` as a threshold, a
  limit wider than 32 bits) is not seen. The archive directory has a default, so
  the check that it is not empty never refuses one that comes from the environment.
- AWS sessions and clients, tracing: only that and where they fail, in `Flow`.
- Readers of a collector's `Metrics()`: the program has none. The counters are compared between
  the steps of the caller of Collect; what a reader would see between two additions is not modelled.
- Reads without effect: `LocalStore.Get`, `/healthz`, `/readyz`, Prometheus, the request log.
- External services appear as the code uses them. `FilterLogEvents` returns all matching
  records that were visible at the call, and perhaps later ones; `GetMetricData` any part
  of them.
- Graph operations that no code calls (`EdgesForNode`, `Neighbors`, `RelatedByEdgeKind`,
  `HasEdge`).

## Plan

Done so far, in this order: `LogsIngestor`, `LogsCollector`, `MetricsIngestor`, `Timeline`,
`Correlation`, `LocalStore`; then `Feed` with its refinements, `Targets`, `MetricsCollector`
and `Flow`; and their proofs, those of `Correlation` and `MetricsCollector` last; then
`ObjectStore` with its refinement. Left:

1. Parsing of the HTTP parameters, as operators that are checked against what the API
   documents say of each.
2. A store on a bucket as a second implementation of `ObjectStore`, once the program
   constructs one.
