-------------------------- MODULE MCMetricsCollector --------------------------
(* A small instance of MetricsCollector for TLC.                            *)
EXTENDS MetricsCollector

Token(type, value) == [colon |-> TRUE, type |-> type, value |-> value]
NoColon(text) == [colon |-> FALSE, type |-> text, value |-> Blank]

\* Nothing, one service, tokens that are skipped, two services that share a name and come in
\* the wrong order, an instance named like a service, a target given twice, and
\* values that are refused.
MCTokenLists == {
    <<NoColon("")>>,
    <<Token("ecs", <<2, 1>>)>>,
    <<Token("ecs", <<1, 2>>), NoColon(""), Token("ecs_service", <<1, 1, 2>>)>>,
    <<Token("ecs", <<1, 2>>), Token("ec2", <<1, 2>>)>>,
    <<Token("ec2", <<3>>), Token("ec2", <<3>>)>>,
    <<Token("ec2", <<1>>), NoColon("x")>>,
    <<Token("ecs", <<1>>)>>, <<Token("ecs", <<0, 1>>)>>, <<Token("ecs", <<1, 0>>)>>,
    <<Token("ec2", <<0>>)>>, <<Token("rds", <<1>>)>>}

\* A value too many, or a timestamp.
MCLengths == {<<0, 1>>, <<2, 1>>}

Config(attempts, budget, initial, max, jitter) ==
    [maxAttempts |-> attempts, maxRetryBudget |-> budget,
     initialBackoff |-> initial, maxBackoff |-> max, jitter |-> jitter]

\* As for LogsCollector: the defaults, two budgets, both overflows, a low maximum.
MCConfigs == {Config(0, 0, 0, 0, 0), Config(3, 1, 2, 8, 50), Config(2, 3, 28, 31, 0),
              Config(4, 3, 9, 25, 0), Config(2, 0, 5, 2, 150)}
=============================================================================
