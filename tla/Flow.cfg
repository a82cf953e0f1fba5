\* Two signals, found once by each loop, and up to two open requests.
SPECIFICATION FairSpec
CONSTANTS
    Configs <- MCConfigs
    Signals = {s1, s2}
    MaxCopies = 1
    MaxRequests = 2
INVARIANTS
    TypeOK
    ConfigurationHonoured
    LossBounded
    CleanExit
PROPERTIES
    LoopsImplementFeed
    ShutdownEnds
\* The process ends.
CHECK_DEADLOCK FALSE
