--------------------------------- MODULE Flow ---------------------------------
(***************************************************************************)
(* The process, cmd/flow/main.go: run checks the configuration, starts the *)
(* ingestion loops of its mode and the HTTP server, waits for a signal or  *)
(* for the server to fail, and shuts down.  The loops are those of         *)
(* LogsIngestor and MetricsIngestor, seen from outside: a poll that finds  *)
(* something is a batch, which goes to the timeline, then through the      *)
(* fan-out to the signal store and to the archive, one Put at a time.      *)
(* Nobody waits for them when the process ends.                            *)
(***************************************************************************)
EXTENDS Targets

CONSTANTS Configs,      \* the settings the process is started with
          Signals,      \* what a loop may find
          MaxCopies,    \* bound: how often a loop finds a signal
          MaxRequests   \* bound: how many HTTP requests are open

\* The two loops: startCloudWatchLogIngestion and startCloudWatchMetricIngestion.
Loops == {"logs", "metrics"}

VARIABLES
    cfg,        \* the settings: ingestion mode, archive mode and so on
    pc,         \* where run is
    reason,     \* why it failed
    result,     \* how the process ended
    notified,   \* SIGINT and SIGTERM go to sigCtx
    sigDone,    \* sigCtx is done
    cancelled,  \* runCtx is cancelled
    server,     \* the goroutine that serves
    serverErr,  \* serverErrCh holds an error
    requests,   \* the HTTP requests that are being answered
    loop,       \* where each ingestion loop is
    batch,      \* what its current batch still has to go through
    timeline,   \* how often it appended each signal to the timeline,
    store,      \* to the signal store,
    archive,    \* and to the archive
    failed      \* history: the Puts that failed

signalVars == <<notified, sigDone>>
serverVars == <<server, serverErr, requests>>
outVars == <<timeline, store, archive, failed>>
loopVars == <<loop, batch, outVars>>
vars == <<cfg, pc, reason, result, signalVars, cancelled, serverVars, loopVars>>

-----------------------------------------------------------------------------
(* The configuration, internal/ingestion/runtime.go and                     *)
(* internal/telemetry/archive/runtime.go.  An archive directory that is not *)
(* given has a default, so the local archive is never refused.              *)

LoopsOf(mode) ==
    CASE mode = "cloudwatch_logs" -> {"logs"}
      [] mode = "cloudwatch_metrics" -> {"metrics"}
      [] mode = "cloudwatch_all" -> Loops
      [] OTHER -> {}

HasTargets == \E targets \in ParseTargets(cfg.tokens) : targets # <<>>

\* Mutant of ValidIngestion: cloudwatch_all is checked like cloudwatch_logs.
ValidAllAsLogs ==
    \/ cfg.mode = "disabled"
    \/ cfg.mode \in {"cloudwatch_logs", "cloudwatch_all"} /\ cfg.group /\ cfg.ordered
    \/ cfg.mode = "cloudwatch_metrics" /\ HasTargets /\ cfg.ordered

\* ingestion.RuntimeConfig.Validate
ValidIngestion ==
    \/ cfg.mode = "disabled"
    \/ /\ LoopsOf(cfg.mode) # {}
       /\ "logs" \in LoopsOf(cfg.mode) => cfg.group
       /\ "metrics" \in LoopsOf(cfg.mode) => HasTargets
       /\ cfg.ordered

\* archive.RuntimeConfig.Validate
ValidArchive == cfg.archive \in {"disabled", "local"}

-----------------------------------------------------------------------------
(* The goroutine of main.                                                   *)

Init ==
    /\ cfg \in Configs
    /\ pc = "validate" /\ reason = "none" /\ result = "none"
    /\ notified = FALSE /\ sigDone = FALSE /\ cancelled = FALSE
    /\ server = "down" /\ serverErr = FALSE /\ requests = 0
    /\ loop = [l \in Loops |-> "off"] /\ batch = [l \in Loops |-> {}]
    /\ timeline = [l \in Loops |-> [s \in Signals |-> 0]]
    /\ store = timeline /\ archive = timeline /\ failed = timeline

\* run returns an error before the server is started: the process ends at once.
Fail(why) ==
    /\ pc' = "exited" /\ result' = "error" /\ reason' = why
    /\ UNCHANGED loop

Continue(to) == pc' = to /\ UNCHANGED <<result, reason>>

Validate ==
    /\ pc = "validate"
    /\ IF ValidIngestion /\ ValidArchive
       THEN Continue("credentials") /\ UNCHANGED loop
       ELSE Fail("config")
    /\ UNCHANGED <<cfg, signalVars, cancelled, serverVars, batch, outVars>>

\* ValidateCredentials, when FLOW_AWS_VALIDATE_ON_START is set.
Credentials ==
    /\ pc = "credentials"
    /\ \/ Continue("archive") /\ UNCHANGED loop
       \/ cfg.validateOnStart /\ Fail("credentials")
    /\ UNCHANGED <<cfg, signalVars, cancelled, serverVars, batch, outVars>>

BuildArchiveSink ==
    /\ pc = "archive"
    /\ IF cfg.archive \in {"disabled", "local"}
       THEN Continue("ingestion") /\ UNCHANGED loop
       ELSE Fail("config")
    /\ UNCHANGED <<cfg, signalVars, cancelled, serverVars, batch, outVars>>

\* startTimelineIngestion: the mode and the region.
StartIngestion ==
    /\ pc = "ingestion"
    /\ IF cfg.mode = "disabled" THEN Continue("tracing") /\ UNCHANGED loop
       ELSE IF LoopsOf(cfg.mode) = {} THEN Fail("config")
       ELSE IF ~cfg.region THEN Fail("region")
       ELSE /\ Continue(IF "logs" \in LoopsOf(cfg.mode) THEN "logs" ELSE "metrics")
            /\ UNCHANGED loop
    /\ UNCHANGED <<cfg, signalVars, cancelled, serverVars, batch, outVars>>

\* A loop is started when its setting is there and its AWS client is created; the
\* log loop comes first.
Start(l, setting, next) ==
    /\ pc = l
    /\ IF setting
       THEN \/ Continue(next) /\ loop' = [loop EXCEPT ![l] = "polling"]
            \/ Fail("client")
       ELSE Fail("config")
    /\ UNCHANGED <<cfg, signalVars, cancelled, serverVars, batch, outVars>>

StartLogs ==
    Start("logs", cfg.group, IF cfg.mode = "cloudwatch_all" THEN "metrics" ELSE "tracing")
StartMetrics == Start("metrics", HasTargets, "tracing")

\* observability.InitTracing fails only with an endpoint; the loops run already.
InitTracing ==
    /\ pc = "tracing"
    /\ \/ Continue("serve") /\ UNCHANGED loop
       \/ cfg.tracing /\ Fail("tracing")
    /\ UNCHANGED <<cfg, signalVars, cancelled, serverVars, batch, outVars>>

StartServer ==
    /\ pc = "serve"
    /\ pc' = "notify"
    /\ server' = "starting"
    /\ UNCHANGED <<cfg, reason, result, signalVars, cancelled, serverErr, requests, loopVars>>

NotifyContext ==
    /\ pc = "notify"
    /\ pc' = "select"
    /\ notified' = TRUE
    /\ UNCHANGED <<cfg, reason, result, sigDone, cancelled, serverVars, loopVars>>

\* The select takes either case when both are ready: the server failed, and run
\* returns without a Shutdown,
SelectServerErr ==
    /\ pc = "select" /\ serverErr
    /\ serverErr' = FALSE
    /\ cancelled' = TRUE
    /\ pc' = "deferred" /\ result' = "error" /\ reason' = "server"
    /\ UNCHANGED <<cfg, signalVars, server, requests, loopVars>>

\* or a signal came.
SelectSignal ==
    /\ pc = "select" /\ sigDone
    /\ cancelled' = TRUE
    /\ pc' = "shutdown"
    /\ UNCHANGED <<cfg, reason, result, signalVars, serverVars, loopVars>>

\* srv.Shutdown: no request is accepted any more,
BeginShutdown ==
    /\ pc = "shutdown"
    /\ pc' = "draining"
    /\ server' = IF server = "failed" THEN "failed" ELSE "closed"
    /\ UNCHANGED <<cfg, reason, result, signalVars, cancelled, serverErr, requests, loopVars>>

\* Mutant of ShutdownDone: the server is closed under its requests.
ShutdownClosed ==
    /\ pc = "draining"
    /\ pc' = "deferred" /\ result' = "ok"
    /\ UNCHANGED <<cfg, reason, signalVars, cancelled, serverVars, loopVars>>

\* those that are open are waited for,
ShutdownDone ==
    /\ pc = "draining" /\ requests = 0
    /\ pc' = "deferred" /\ result' = "ok"
    /\ UNCHANGED <<cfg, reason, signalVars, cancelled, serverVars, loopVars>>

\* Mutant of ShutdownTimeout: the Shutdown has no deadline.
ShutdownUnbounded == ShutdownDone

\* but not for more than 10 seconds.
ShutdownTimeout ==
    /\ pc = "draining"
    /\ pc' = "deferred" /\ result' = "error" /\ reason' = "timeout"
    /\ UNCHANGED <<cfg, signalVars, cancelled, serverVars, loopVars>>

\* The deferred calls: stop gives the signals back to the runtime,
StopNotify ==
    /\ pc = "deferred"
    /\ pc' = "flush"
    /\ notified' = FALSE
    /\ UNCHANGED <<cfg, reason, result, sigDone, cancelled, serverVars, loopVars>>

\* and tracingShutdown takes up to 5 seconds before the process ends.
Exit ==
    /\ pc = "flush"
    /\ pc' = "exited"
    /\ UNCHANGED <<cfg, reason, result, signalVars, cancelled, serverVars, loopVars>>

-----------------------------------------------------------------------------
(* The environment, and the HTTP server.                                    *)

Alive == pc # "exited"

\* A signal ends sigCtx; where it is not caught it kills the process, and one that
\* follows a first has no effect.
Signal ==
    /\ Alive
    /\ \/ /\ notified
          /\ sigDone' = TRUE
          /\ UNCHANGED <<pc, result, reason>>
       \/ /\ ~notified
          /\ pc' = "exited" /\ result' = "killed"
          /\ UNCHANGED <<sigDone, reason>>
    /\ UNCHANGED <<cfg, notified, cancelled, serverVars, loopVars>>

Listening ==
    /\ Alive /\ server = "starting"
    /\ server' = "listening"
    /\ UNCHANGED <<cfg, pc, reason, result, signalVars, cancelled, serverErr, requests, loopVars>>

\* ListenAndServe fails to bind the address, or to accept.
ServerFails ==
    /\ Alive /\ server \in {"starting", "listening"}
    /\ server' = "failed"
    /\ serverErr' = TRUE
    /\ UNCHANGED <<cfg, pc, reason, result, signalVars, cancelled, requests, loopVars>>

RequestBegins ==
    /\ Alive /\ server = "listening" /\ requests < MaxRequests
    /\ requests' = requests + 1
    /\ UNCHANGED <<cfg, pc, reason, result, signalVars, cancelled, server, serverErr, loopVars>>

RequestEnds ==
    /\ Alive /\ requests > 0
    /\ requests' = requests - 1
    /\ UNCHANGED <<cfg, pc, reason, result, signalVars, cancelled, server, serverErr, loopVars>>

-----------------------------------------------------------------------------
(* The ingestion loops.                                                     *)

processVars == <<cfg, pc, reason, result, signalVars, cancelled, serverVars>>

Plus(count, l, S) ==
    [count EXCEPT ![l] = [s \in Signals |-> IF s \in S THEN @[s] + 1 ELSE @[s]]]

\* A poll finds the batch B; one that fails or finds nothing changes nothing.
Poll(l, B) ==
    /\ Alive /\ loop[l] = "polling"
    /\ B # {} /\ \A s \in B : timeline[l][s] < MaxCopies
    /\ loop' = [loop EXCEPT ![l] = "publish"]
    /\ batch' = [batch EXCEPT ![l] = B]
    /\ UNCHANGED <<processVars, outVars>>

\* timeline.AddEvents
AddEvents(l) ==
    /\ Alive /\ loop[l] = "publish"
    /\ loop' = [loop EXCEPT ![l] = "store"]
    /\ timeline' = Plus(timeline, l, batch[l])
    /\ UNCHANGED <<processVars, batch, store, archive, failed>>

\* Mutant of AddToStore: the batch is not let go of.
AddToStoreKept(l) ==
    /\ Alive /\ loop[l] = "store"
    /\ store' = Plus(store, l, batch[l])
    /\ loop' = [loop EXCEPT ![l] = IF cfg.archive = "local" THEN "archive" ELSE "polling"]
    /\ UNCHANGED <<processVars, batch, timeline, archive, failed>>

\* Mutant of AddToStore: with an archive, the fan-out reaches the archive alone.
AddToLast(l) ==
    /\ Alive /\ loop[l] = "store"
    /\ IF cfg.archive = "local"
       THEN loop' = [loop EXCEPT ![l] = "archive"] /\ UNCHANGED <<batch, store>>
       ELSE /\ store' = Plus(store, l, batch[l])
            /\ loop' = [loop EXCEPT ![l] = "polling"]
            /\ batch' = [batch EXCEPT ![l] = {}]
    /\ UNCHANGED <<processVars, timeline, archive, failed>>

\* telemetrySignalFanout: the signal store comes first; it alone is the sink when
\* there is no archive.
AddToStore(l) ==
    /\ Alive /\ loop[l] = "store"
    /\ store' = Plus(store, l, batch[l])
    /\ IF cfg.archive = "local"
       THEN loop' = [loop EXCEPT ![l] = "archive"] /\ UNCHANGED batch
       ELSE /\ loop' = [loop EXCEPT ![l] = "polling"]
            /\ batch' = [batch EXCEPT ![l] = {}]
    /\ UNCHANGED <<processVars, timeline, archive, failed>>

\* Mutant of Put: a Put that fails ends the batch.
PutOrReturn(l, s) ==
    /\ Alive /\ loop[l] = "archive" /\ s \in batch[l]
    /\ \/ /\ archive' = Plus(archive, l, {s})
          /\ batch' = [batch EXCEPT ![l] = @ \ {s}]
          /\ UNCHANGED failed
       \/ /\ failed' = Plus(failed, l, {s})
          /\ batch' = [batch EXCEPT ![l] = {}]
          /\ UNCHANGED archive
    /\ loop' = [loop EXCEPT ![l] = IF batch'[l] = {} THEN "polling" ELSE "archive"]
    /\ UNCHANGED <<processVars, timeline, store>>

\* archive.Sink: one Put for each signal, under a context of its own; one that fails
\* is logged and the next one follows.
Put(l, s) ==
    /\ Alive /\ loop[l] = "archive" /\ s \in batch[l]
    /\ \/ archive' = Plus(archive, l, {s}) /\ UNCHANGED failed
       \/ failed' = Plus(failed, l, {s}) /\ UNCHANGED archive
    /\ batch' = [batch EXCEPT ![l] = @ \ {s}]
    /\ loop' = [loop EXCEPT ![l] = IF batch'[l] = {} THEN "polling" ELSE "archive"]
    /\ UNCHANGED <<processVars, timeline, store>>

\* Run sees the cancelled context between two polls.
Return(l) ==
    /\ Alive /\ loop[l] = "polling" /\ cancelled
    /\ loop' = [loop EXCEPT ![l] = "returned"]
    /\ UNCHANGED <<processVars, batch, outVars>>

-----------------------------------------------------------------------------

Startup ==
    \/ Validate \/ Credentials \/ BuildArchiveSink \/ StartIngestion
    \/ StartLogs \/ StartMetrics \/ InitTracing \/ StartServer \/ NotifyContext

Shutdown ==
    \/ SelectServerErr \/ SelectSignal
    \/ BeginShutdown \/ ShutdownDone \/ ShutdownTimeout \/ StopNotify \/ Exit

Main == Startup \/ Shutdown

Server == Listening \/ ServerFails \/ RequestBegins \/ RequestEnds

Loop(l) ==
    \/ \E B \in SUBSET Signals : Poll(l, B)
    \/ AddEvents(l)
    \/ AddToStore(l)
    \/ \E s \in Signals : Put(l, s)
    \/ Return(l)

Next == Main \/ Signal \/ Server \/ \E l \in Loops : Loop(l)

Spec == Init /\ [][Next]_vars

(* The calls of main return: the timers of its contexts fire.  Nothing is   *)
(* assumed of the clients, the disk or CloudWatch.                          *)
FairSpec == Spec /\ WF_vars(Main)

-----------------------------------------------------------------------------
(* Properties.                                                              *)

Places == {"validate", "credentials", "archive", "ingestion", "logs", "metrics", "tracing",
           "serve", "notify", "select", "shutdown", "draining", "deferred", "flush", "exited"}
Reasons == {"none", "config", "credentials", "region", "client", "tracing", "server", "timeout"}
Counts == [Loops -> [Signals -> Nat]]

\* Every variable has its type, and a batch is empty between two of them.
TypeOK ==
    /\ cfg \in Configs
    /\ pc \in Places /\ reason \in Reasons /\ result \in {"none", "ok", "error", "killed"}
    /\ notified \in BOOLEAN /\ sigDone \in BOOLEAN /\ cancelled \in BOOLEAN
    /\ server \in {"down", "starting", "listening", "failed", "closed"}
    /\ serverErr \in BOOLEAN /\ requests \in Nat
    /\ loop \in [Loops -> {"off", "polling", "publish", "store", "archive", "returned"}]
    /\ batch \in [Loops -> SUBSET Signals]
    /\ \A l \in Loops : batch[l] # {} <=> loop[l] \in {"publish", "store", "archive"}
    /\ timeline \in Counts /\ store \in Counts /\ archive \in Counts /\ failed \in Counts

\* A setting that is missing or malformed is refused before any loop has started,
\* although it is looked at again when each loop starts; and where the server runs,
\* so do the loops of the mode, all of them and no other.
ConfigurationHonoured ==
    /\ reason = "config" => \A l \in Loops : loop[l] = "off"
    /\ server # "down" => \A l \in Loops : loop[l] # "off" <=> l \in LoopsOf(cfg.mode)

InBatch(l, s, place) == IF loop[l] = place /\ s \in batch[l] THEN 1 ELSE 0

\* Wherever the process ends, the signal store lacks of the timeline, and the archive
\* of the signal store, only what is left of one batch of each loop and the Puts that
\* failed.
LossBounded ==
    \A l \in Loops, s \in Signals :
        /\ timeline[l][s] = store[l][s] + InBatch(l, s, "store")
        /\ cfg.archive = "local" =>
               store[l][s] = archive[l][s] + failed[l][s] + InBatch(l, s, "archive")

\* The process ends without an error only on a signal and when every request that was
\* accepted has been answered; a server that failed meanwhile does not matter.
CleanExit == result = "ok" => sigDone /\ requests = 0 /\ server \notin {"starting", "listening"}

\* Each loop implements the abstract feed: what is done around it, starting, fan-out
\* and shutdown, lets no batch pass another on its way to the signal store.
Found(l) == {s \in Signals : timeline[l][s] > 0} \cup batch[l]
Pending(l) == IF loop[l] = "store" THEN batch[l] ELSE {}
LogsFeed == INSTANCE Feed WITH
    AtMostOnce <- FALSE, source <- Found("logs"), timeline <- timeline["logs"],
    sink <- store["logs"], pending <- Pending("logs")
MetricsFeed == INSTANCE Feed WITH
    AtMostOnce <- FALSE, source <- Found("metrics"), timeline <- timeline["metrics"],
    sink <- store["metrics"], pending <- Pending("metrics")
LoopsImplementFeed == LogsFeed!Spec /\ MetricsFeed!Spec

\* Once a signal was caught the process ends, also when a request never does.
ShutdownEnds == sigDone ~> ~Alive
=============================================================================
