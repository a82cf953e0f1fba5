\* The retention is 12, so a clock of 14 lets an identity be forgotten; the clock is
\* stepped back once, a point is up to two units late, and answers are truncated.
SPECIFICATION Spec
CONSTANTS
    Points = {p1}
    Window = 2
    MinSeenRetention = 3
    Interval = 1
    Timeout = 1
    MaxTime = 14
    MaxBack = 1
    MaxBacks = 1
    MaxLate = 2
INVARIANTS
    TypeOK
    NoDuplicateBreach
    LateBreachReported
PROPERTIES
    ImplementsFeed
\* Run returns once its context is cancelled.
CHECK_DEADLOCK FALSE
