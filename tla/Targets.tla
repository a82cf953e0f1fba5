------------------------------- MODULE Targets -------------------------------
(***************************************************************************)
(* The metric targets: how FLOW_CW_METRIC_TARGETS is parsed                *)
(* (internal/ingestion/runtime.go), which queries the CloudWatch collector *)
(* asks for them and how it reads the answer                               *)
(* (internal/telemetry/cloudwatch/collector.go).                           *)
(*                                                                         *)
(* A token of the variable is [colon, type, value]: the text before its    *)
(* colon, or all of it, and the text behind, split at its slashes.  A name *)
(* between slashes is a number, for the order of the targets, and 0 is the  *)
(* empty one.                                                              *)
(***************************************************************************)
EXTENDS Integers, Sequences, SequencesExt

Blank == <<0>>

\* Names and separators alternate in a key, so a separator is compared with a separator
\* only: a slash sorts before a colon, as in ASCII.
Slash == 1000
Colon == 1001

-----------------------------------------------------------------------------
(* parseMetricTargets.                                                      *)

Skipped(token) == ~token.colon /\ token.type = ""

\* Mutant of WellFormed: the two halves of an ECS value are not looked at.
WellFormedSplit(token) ==
    /\ token.colon
    /\ token.value # Blank
    /\ \/ token.type = "ec2"
       \/ token.type \in {"ecs", "ecs_service"} /\ Len(token.value) > 1

\* An EC2 instance, or the cluster and the service of an ECS service.
WellFormed(token) ==
    /\ token.colon
    /\ token.value # Blank
    /\ \/ token.type = "ec2"
       \/ /\ token.type \in {"ecs", "ecs_service"}
          /\ Len(token.value) > 1
          /\ <<token.value[1]>> # Blank /\ Tail(token.value) # Blank

Target(token) ==
    IF token.type = "ec2"
    THEN [kind |-> "ec2", instance |-> token.value, cluster |-> Blank, service |-> Blank]
    ELSE [kind |-> "ecs_service", instance |-> Blank,
          cluster |-> <<token.value[1]>>, service |-> Tail(token.value)]

\* The sort key: the parts of the target with a colon behind each.
SortKey(target) ==
    LET Text(value) == [i \in 1..(2 * Len(value)) |->
                            IF i % 2 = 1 THEN value[(i + 1) \div 2]
                            ELSE IF i < 2 * Len(value) THEN Slash ELSE Colon]
    IN  <<IF target.kind = "ec2" THEN 1 ELSE 2>> \o Text(target.instance)
            \o Text(target.cluster) \o Text(target.service)

\* The order of two strings: that of the first letters that differ.
Less(l, r) ==
    \E i \in DOMAIN r :
        /\ \A j \in 1..(i - 1) : j \in DOMAIN l /\ l[j] = r[j]
        /\ i \in DOMAIN l => l[i] < r[i]

Before(left, right) == Less(SortKey(left), SortKey(right))

\* The stable sort: in the order of the keys, and as given where they are equal.
SortStable(given) ==
    LET Precedes(i, j) ==
            \/ Before(given[i], given[j])
            \/ i < j /\ ~Before(given[j], given[i])
    IN  {[i \in DOMAIN given |-> given[p[i]]] : p \in
            {q \in Bijection(DOMAIN given, DOMAIN given) :
                \A i, j \in DOMAIN given : i < j => Precedes(q[i], q[j])}}

\* The result, as the set of it; one token that is not well-formed refuses them all,
\* and there is none.
ParseTargets(tokens) ==
    LET given == FlattenSeq([i \in DOMAIN tokens |->
                     IF Skipped(tokens[i]) THEN <<>> ELSE <<Target(tokens[i])>>])
    IN  IF \A i \in DOMAIN tokens : Skipped(tokens[i]) \/ WellFormed(tokens[i])
        THEN SortStable(given)
        ELSE {}

-----------------------------------------------------------------------------
(* buildMetricQueries and metricSpecsForTarget.                             *)

\* The series that are asked for a target; none without an identity.
MetricSpecs(target) ==
    LET Series(resource, namespace, names) ==
            [i \in DOMAIN names |->
                [resource |-> resource, namespace |-> namespace, name |-> names[i]]]
    IN  IF target.kind = "ec2" /\ target.instance # Blank
        THEN Series(target.instance, "AWS/EC2", <<"CPUUtilization", "NetworkIn", "NetworkOut">>)
        ELSE IF /\ target.kind = "ecs_service"
                /\ target.cluster # Blank /\ target.service # Blank
        THEN Series(target.cluster \o target.service, "AWS/ECS",
                    <<"CPUUtilization", "MemoryUtilization">>)
        ELSE <<>>

\* Mutant of BuildMetricQueries: the queries are numbered for each target anew.
BuildQueriesPerTarget(targets) ==
    FlattenSeq([i \in DOMAIN targets |->
        [k \in DOMAIN MetricSpecs(targets[i]) |->
            [id |-> k, asks |-> MetricSpecs(targets[i])[k]]]])

\* The queries are numbered through all the targets.
BuildMetricQueries(targets) ==
    LET specs == FlattenSeq([i \in DOMAIN targets |-> MetricSpecs(targets[i])])
    IN  [k \in DOMAIN specs |-> [id |-> k, asks |-> specs[k]]]

\* The map from the identifiers to what they ask; the last entry stays.
Descriptors(queries) ==
    [id \in {queries[k].id : k \in DOMAIN queries} |->
        queries[CHOOSE k \in DOMAIN queries :
            /\ queries[k].id = id
            /\ \A j \in DOMAIN queries : queries[j].id = id => j <= k].asks]

\* metricPointsFromOutput: an answer is a sequence of results [id, values,
\* timestamps]; an identifier nobody gave is skipped, and so is a value without a
\* timestamp and a timestamp without a value.
MetricPoints(output, descriptors) ==
    LET Read(result) ==
            LET pairs == Zip(result.timestamps, result.values)
            IN  [i \in DOMAIN pairs |-> [series |-> descriptors[result.id],
                                         timestamp |-> pairs[i][1], value |-> pairs[i][2]]]
    IN  FlattenSeq([r \in DOMAIN output |->
            IF output[r].id \in DOMAIN descriptors THEN Read(output[r]) ELSE <<>>])
=============================================================================
