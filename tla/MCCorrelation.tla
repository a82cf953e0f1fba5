--------------------------- MODULE MCCorrelation ---------------------------
(* Small instances of Correlation for TLC: a second is two units of time.   *)
EXTENDS Correlation

MCMetrics == {[res |-> 1, ts |-> 1], [res |-> 1, ts |-> 4]}

\* A record with an id, one of another resource, and one with neither id nor time.
MCLogs ==
    {[id |-> 1, res |-> 1, ts |-> 3, ingested |-> 3],
     [id |-> 2, res |-> 2, ts |-> 1, ingested |-> 2],
     [id |-> 0, res |-> 1, ts |-> NoTime, ingested |-> 2]}

Query(s, e, k, r, ln, le) ==
    [start |-> s, end |-> e, skew |-> k, res |-> r, limitNodes |-> ln, limitEdges |-> le]

\* The whole store, a range, filters and limits, and what is refused.
MCQueries ==
    {Query(Absent, Absent, Absent, Absent, 0, 0),
     Query(Absent, Absent, 1, Absent, 0, 0),
     Query(2, 4, Absent, Absent, 0, 0),
     Query(2, Absent, 2, 1, 0, 0),
     Query(Absent, 3, Absent, Absent, 3, 0),
     Query(Absent, Absent, Absent, 1, 4, 2),
     Query(Absent, Absent, Absent, Absent, 0, 1),
     Query(4, 2, Absent, Absent, 0, 0),
     Query(Absent, Absent, -1, Absent, 0, 0)}

\* A tolerance of zero, of one second, and one that is larger than a Duration.
SkewQueries == {Query(Absent, Absent, k, Absent, 0, 0) : k \in {0, 1, 8}}
=============================================================================
