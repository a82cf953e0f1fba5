\* Safety: the window is 1, the retention 6 and the clock runs to 7, so an
\* outage can outlast the retention; the clock is stepped back once.
SPECIFICATION Spec
CONSTANTS
    Records = {r1, r2}
    Window = 1
    MinSeenRetention = 4
    Interval = 2
    Timeout = 1
    MaxTime = 7
    MaxBack = 2
    MaxBacks = 1
    MaxSkew = 1
SYMMETRY Symmetry
INVARIANTS
    TypeOK
    PunctualRecordsCovered
    SeenWithinRetention
PROPERTIES
    NoDuplicateWithinRetention
    ImplementsFeed
\* Run returns once its context is cancelled.
CHECK_DEADLOCK FALSE
