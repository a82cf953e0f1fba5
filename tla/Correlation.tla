----------------------------- MODULE Correlation -----------------------------
(***************************************************************************)
(* Telemetry correlation: the bounded signal store                          *)
(* (internal/telemetry/signals/store.go) that the ingestors fill, and the   *)
(* query (internal/correlation/service.go, internal/graph/correlation.go    *)
(* and the handler of internal/httpserver/server.go) that reads the metrics *)
(* and the logs one after the other and relates them in a graph.            *)
(*                                                                         *)
(* Every stored signal carries the number n under which it was added.  The  *)
(* code has no such number: it stands for the position that makes the node  *)
(* of a metric, or of a log record without an event id, unique in a graph.  *)
(***************************************************************************)
EXTENDS Integers, Sequences, FiniteSets

CONSTANTS Metrics,      \* metric points: records with fields res, ts
          Logs,         \* log records: id (0: none), res, ts (NoTime: none), ingested
          NoTime,       \* the zero time.Time
          MaxMetrics, MaxLogs,  \* Config of the store
          Second,       \* time.Second, in the unit of the timestamps
          DefaultSkew,  \* two minutes in the code
          MaxInt,       \* the largest int, and the largest time.Duration
          Queries,      \* requests: start, end, skew, res, limitNodes, limitEdges
          Absent,       \* a query parameter that is not given
          MaxAdded      \* bound: how many metrics, and how many logs, are added

ASSUME StoreAssumption ==
    /\ MaxMetrics \in Nat \ {0} /\ MaxLogs \in Nat \ {0}
    /\ MaxAdded \in Nat
    /\ Second \in Nat \ {0} /\ DefaultSkew \in Nat \ {0} /\ MaxInt \in Nat
    /\ NoTime \notin Int /\ Absent \notin Int
    /\ \A m \in Metrics : m.res \in Nat /\ m.ts \in Int
    /\ \A l \in Logs : /\ l.id \in Nat /\ l.res \in Nat
                       /\ l.ts \in Int \cup {NoTime} /\ l.ingested \in Int

\* CloudWatch gives every log event an id of its own.
ASSUME EventIdAssumption == \A l, k \in Logs : l.id # 0 /\ l.id = k.id => l = k

\* The handler parses integers; the limits that are not given are zero.
ASSUME QueryAssumption ==
    \A r \in Queries : /\ r.skew \in Int \cup {Absent}
                       /\ r.limitNodes \in Int /\ r.limitEdges \in Int

VARIABLES
    metrics, logs,          \* InMemoryStore: the signals, each with its number
    addedMetrics, addedLogs, \* history: how many were ever added
    pc,                     \* the query: idle, metrics, logs, answered, rejected
    q,                      \* its request
    qm, ql,                 \* what it read from the store
    nodes, edges,           \* its Result
    before                  \* history: addedMetrics and addedLogs when it began

storeVars == <<metrics, logs, addedMetrics, addedLogs>>
queryVars == <<pc, q, qm, ql, nodes, edges, before>>
vars == <<storeVars, queryVars>>

-----------------------------------------------------------------------------
(* The signal store.                                                        *)

Numbered(batch, n) == [i \in 1..Len(batch) |-> [sig |-> batch[i], n |-> n + i]]

\* Mutant of Newest: the signals that do not fit are left out.
Oldest(s, max) == IF Len(s) > max THEN SubSeq(s, 1, max) ELSE s

\* The last max elements of s.
Newest(s, max) == IF Len(s) > max THEN SubSeq(s, Len(s) - max + 1, Len(s)) ELSE s

AddMetricPoints(batch) ==
    /\ addedMetrics + Len(batch) <= MaxAdded
    /\ metrics' = Newest(metrics \o Numbered(batch, addedMetrics), MaxMetrics)
    /\ addedMetrics' = addedMetrics + Len(batch)
    /\ UNCHANGED <<logs, addedLogs, queryVars>>

\* Mutant of AddLogRecords: the slice is trimmed before the batch is appended.
AddLogRecordsTrimFirst(batch) ==
    /\ addedLogs + Len(batch) <= MaxAdded
    /\ logs' = Newest(logs, MaxLogs) \o Numbered(batch, addedLogs)
    /\ addedLogs' = addedLogs + Len(batch)
    /\ UNCHANGED <<metrics, addedMetrics, queryVars>>

AddLogRecords(batch) ==
    /\ addedLogs + Len(batch) <= MaxAdded
    /\ logs' = Newest(logs \o Numbered(batch, addedLogs), MaxLogs)
    /\ addedLogs' = addedLogs + Len(batch)
    /\ UNCHANGED <<metrics, addedMetrics, queryVars>>

InRange(t) == (q.start = Absent \/ q.start <= t) /\ (q.end = Absent \/ t <= q.end)

\* A log record without a timestamp is selected by its ingestion time.
LogTime(l) == IF l.ts = NoTime THEN l.ingested ELSE l.ts

QueryMetricPoints == {m \in {metrics[i] : i \in DOMAIN metrics} : InRange(m.sig.ts)}
QueryLogRecords == {l \in {logs[i] : i \in DOMAIN logs} : InRange(LogTime(l.sig))}

-----------------------------------------------------------------------------
(* The graph.                                                               *)

Wrap(x) ==
    IF x \in (-MaxInt - 1)..MaxInt THEN x
    ELSE ((x + MaxInt + 1) % (2 * MaxInt + 2)) - MaxInt - 1

\* The handler: a tolerance above zero, in seconds, becomes a Duration.
\* BuildCorrelationGraph: one that is not above zero is the default.
AskedSkew == IF q.skew # Absent /\ q.skew > 0 THEN Wrap(q.skew * Second) ELSE 0
Skew == IF AskedSkew <= 0 THEN DefaultSkew ELSE AskedSkew

\* Node ids sort by kind, as their prefixes do.  Among metrics the number of the append
\* stands for the rest of the string, on whose order no property depends.
Resource(r) == <<3, r, 0>>
Metric(m) == <<2, m.n, 0>>

\* logNodeIDForEntry: the event id names the node of a log record that has one.
Log(l) == IF l.sig.id # 0 THEN <<1, l.sig.id, 0>> ELSE <<1, 0, l.n>>

\* Mutant of Correlated: the tolerance is exclusive.
CorrelatedWithin(m, l) ==
    /\ m.sig.res = l.sig.res
    /\ l.sig.ts # NoTime
    /\ m.sig.ts - l.sig.ts < Skew /\ l.sig.ts - m.sig.ts < Skew

\* A record without a timestamp is two thousand years from every metric.
Correlated(m, l) ==
    /\ m.sig.res = l.sig.res
    /\ l.sig.ts # NoTime
    /\ m.sig.ts - l.sig.ts <= Skew /\ l.sig.ts - m.sig.ts <= Skew

\* BuildCorrelationGraph: the nodes with the resource_id they are given.  Copies
\* of a record share a node.
GraphNodes ==
    {[id |-> Resource(s.sig.res), res |-> s.sig.res] : s \in qm \cup ql}
        \cup {[id |-> Metric(m), res |-> m.sig.res] : m \in qm}
        \cup {[id |-> Log(l), res |-> l.sig.res] : l \in ql}

GraphEdges ==
    {<<Resource(m.sig.res), Metric(m), "emits_metric">> : m \in qm}
        \cup {<<Resource(l.sig.res), Log(l), "emits_log">> : l \in ql}
        \cup {<<Metric(p[1]), Log(p[2]), "correlated_with">> :
                 p \in {r \in qm \X ql : Correlated(r[1], r[2])}}

-----------------------------------------------------------------------------
(* QueryGraph: the filter, the limits and the order they are applied in.    *)

\* The order of the node ids: "log:" before "metric:" before "resource:".
Before(a, b) ==
    \/ a[1] < b[1]
    \/ a[1] = b[1] /\ a[2] < b[2]
    \/ a[1] = b[1] /\ a[2] = b[2] /\ a[3] < b[3]

\* Two nodes are joined by edges of one kind only.
EdgeBefore(e, f) == Before(e[1], f[1]) \/ (e[1] = f[1] /\ Before(e[2], f[2]))

OfResource == {x \in GraphNodes : q.res = Absent \/ x.res = q.res}

\* The first limitNodes of them.
ResultNodes ==
    {x \in OfResource :
        q.limitNodes > 0
            => Cardinality({y \in OfResource : Before(y.id, x.id)}) < q.limitNodes}

\* Mutant of AllowedEdges: one end among the nodes is enough.
EdgesOfNodes(N) == {e \in GraphEdges : \E x \in N : x.id = e[1] \/ x.id = e[2]}

\* Both ends are among the nodes of the result.
AllowedEdges(N) ==
    {e \in GraphEdges : (\E x \in N : x.id = e[1]) /\ (\E x \in N : x.id = e[2])}

\* The first limitEdges of them.
ResultEdges ==
    LET E == AllowedEdges(ResultNodes)
    IN  {e \in E :
            q.limitEdges > 0 => Cardinality({f \in E : EdgeBefore(f, e)}) < q.limitEdges}

Init ==
    /\ metrics = <<>> /\ logs = <<>> /\ addedMetrics = 0 /\ addedLogs = 0
    /\ pc = "idle"
    /\ q \in Queries
    /\ qm = {} /\ ql = {} /\ nodes = {} /\ edges = {}
    /\ before = <<0, 0>>

\* start must be before end; parseIntQuery refuses a negative number.
Invalid ==
    \/ q.start # Absent /\ q.end # Absent /\ q.start > q.end
    \/ q.skew # Absent /\ q.skew < 0
    \/ q.limitNodes < 0 \/ q.limitEdges < 0

Reject ==
    /\ pc = "idle"
    /\ Invalid
    /\ pc' = "rejected"
    /\ UNCHANGED <<storeVars, q, qm, ql, nodes, edges, before>>

Begin ==
    /\ pc = "idle"
    /\ ~Invalid
    /\ pc' = "metrics"
    /\ before' = <<addedMetrics, addedLogs>>
    /\ UNCHANGED <<storeVars, q, qm, ql, nodes, edges>>

\* The store locks itself for each of the two reads, not for both.
ReadMetrics ==
    /\ pc = "metrics"
    /\ pc' = "logs"
    /\ qm' = QueryMetricPoints
    /\ UNCHANGED <<storeVars, q, ql, nodes, edges, before>>

ReadLogs ==
    /\ pc = "logs"
    /\ pc' = "build"
    /\ ql' = QueryLogRecords
    /\ UNCHANGED <<storeVars, q, qm, nodes, edges, before>>

Answer ==
    /\ pc = "build"
    /\ pc' = "answered"
    /\ nodes' = ResultNodes
    /\ edges' = ResultEdges
    /\ UNCHANGED <<storeVars, q, qm, ql, before>>

Next ==
    \/ \E m \in Metrics : AddMetricPoints(<<m>>)
    \/ \E m, p \in Metrics : AddMetricPoints(<<m, p>>)
    \/ \E l \in Logs : AddLogRecords(<<l>>)
    \/ \E l, k \in Logs : AddLogRecords(<<l, k>>)
    \/ Reject
    \/ Begin
    \/ ReadMetrics
    \/ ReadLogs
    \/ Answer

Spec == Init /\ [][Next]_vars

-----------------------------------------------------------------------------
(* Properties.                                                              *)

Stored(S, added) == {[sig |-> s, n |-> n] : s \in S, n \in 1..added}

\* Every variable has its type; neither buffer outgrows its bound.
TypeOK ==
    /\ metrics \in Seq(Stored(Metrics, addedMetrics)) /\ Len(metrics) <= MaxMetrics
    /\ logs \in Seq(Stored(Logs, addedLogs)) /\ Len(logs) <= MaxLogs
    /\ addedMetrics \in 0..MaxAdded /\ addedLogs \in 0..MaxAdded
    /\ pc \in {"idle", "metrics", "logs", "build", "answered", "rejected"}
    /\ q \in Queries
    /\ qm \subseteq Stored(Metrics, addedMetrics)
    /\ ql \subseteq Stored(Logs, addedLogs)
    /\ before \in (0..addedMetrics) \X (0..addedLogs)

\* Each buffer holds the signals added last, in their order and without a gap,
\* however they were cut into batches.
NewestKept ==
    /\ \A i \in DOMAIN metrics : metrics[i].n = addedMetrics - Len(metrics) + i
    /\ \A i \in DOMAIN logs : logs[i].n = addedLogs - Len(logs) + i
    /\ addedMetrics <= MaxMetrics => Len(metrics) = addedMetrics
    /\ addedLogs <= MaxLogs => Len(logs) = addedLogs

\* Although the two buffers are read one after the other, a metric and a log
\* record of one resource that are in the store during the whole of the query,
\* within the range and within the tolerance, are related in its result.
PairsReported ==
    pc = "answered" /\ q.res = Absent /\ q.limitNodes = 0 /\ q.limitEdges = 0 =>
        \A i \in DOMAIN metrics, j \in DOMAIN logs :
            LET m == metrics[i]
                l == logs[j]
            IN  /\ m.n <= before[1] /\ l.n <= before[2]
                /\ InRange(m.sig.ts) /\ InRange(LogTime(l.sig))
                /\ m.sig.res = l.sig.res /\ l.sig.ts # NoTime
                /\ m.sig.ts - l.sig.ts \in -Skew..Skew
                => <<Metric(m), Log(l), "correlated_with">> \in edges

\* Whatever the filter and the limits leave out, no edge of the result dangles, and
\* the nodes and the edges respect them.
ResultClosed ==
    pc = "answered" =>
        /\ \A e \in edges : {e[1], e[2]} \subseteq {x.id : x \in nodes}
        /\ q.res # Absent => \A x \in nodes : x.res = q.res
        /\ q.limitNodes > 0 => Cardinality(nodes) <= q.limitNodes
        /\ q.limitEdges > 0 => Cardinality(edges) <= q.limitEdges

\* docs/api/telemetry-correlation.md: max_skew_seconds, an int of zero or more, is the
\* correlation tolerance in seconds; the default applies when it is omitted.
SkewAsDocumented ==
    pc = "answered" /\ q.skew # Absent =>
        \A m \in qm, l \in ql :
            <<Metric(m), Log(l), "correlated_with">> \in edges
                => m.sig.ts - l.sig.ts \in -(q.skew * Second)..(q.skew * Second)

=============================================================================
