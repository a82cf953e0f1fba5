\* Two Collects for the targets of six settings, under five configurations.
SPECIFICATION FairSpec
CONSTANTS
    TokenLists <- MCTokenLists
    Lengths <- MCLengths
    MaxResults = 2
    Configs <- MCConfigs
    MaxDuration = 31
    MaxRounds = 2
INVARIANTS
    TypeOK
    TargetsKeptApart
    PointsAttributed
PROPERTIES
    RetriesAsLogsCollector
\* The bound on the rounds ends a behaviour.
CHECK_DEADLOCK FALSE
