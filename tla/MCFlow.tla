-------------------------------- MODULE MCFlow --------------------------------
(* A small instance of Flow for TLC.                                        *)
EXTENDS Flow

Token(type, value) == [colon |-> TRUE, type |-> type, value |-> value]

None == <<[colon |-> FALSE, type |-> "", value |-> Blank]>>
Good == <<Token("ecs", <<1, 2>>)>>
Bad == <<Token("ecs", <<1, 2>>), Token("ecs", <<1, 0>>)>>

Config(mode, group, tokens, ordered, region, sink, extras) ==
    [mode |-> mode, group |-> group, tokens |-> tokens, ordered |-> ordered,
     region |-> region, archive |-> sink, validateOnStart |-> extras, tracing |-> extras]

\* Every combination of the settings of ingestion that is refused or has no region,
\* an archive that is refused, and the ones that run.
MCConfigs ==
    {Config(mode, group, tokens, ordered, region, "local", FALSE) :
        mode \in {"cloudwatch_logs", "cloudwatch_metrics", "cloudwatch_all", "other"},
        group \in BOOLEAN, tokens \in {None, Good, Bad}, ordered \in BOOLEAN,
        region \in {FALSE}}
    \cup {Config("cloudwatch_all", group, tokens, TRUE, TRUE, "local", FALSE) :
            group \in BOOLEAN, tokens \in {None, Bad}}
    \cup {Config("disabled", FALSE, None, FALSE, FALSE, sink, TRUE) : sink \in {"disabled", "s3"}}
    \cup {Config("cloudwatch_all", TRUE, Good, TRUE, TRUE, "local", TRUE),
          Config("cloudwatch_metrics", FALSE, Good, TRUE, TRUE, "disabled", FALSE),
          Config("cloudwatch_logs", TRUE, None, TRUE, TRUE, "disabled", FALSE)}
=============================================================================
