\* Two keys, one of them outside the narrower prefix; three Puts, one crash.
SPECIFICATION Spec
CONSTANTS
    Keys = {k1, k2}
    Prefixes <- MCPrefixes
    MaxAge = 1
    None = None
    Torn = Torn
    MaxTime = 2
    MaxPuts = 3
    MaxCrashes = 1
INVARIANTS
    TypeOK
    SweepComplete
    NoOrphans
PROPERTIES
    ImplementsObjectStore
\* The bounds end a behaviour.
CHECK_DEADLOCK FALSE
