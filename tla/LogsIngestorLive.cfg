\* One record and a clock that runs to 5: a poll may fail, be late, or see the
\* clock stepped back before it succeeds.
SPECIFICATION FairSpec
CONSTANTS
    Records = {r1}
    Window = 1
    MinSeenRetention = 4
    Interval = 2
    Timeout = 2
    MaxTime = 5
    MaxBack = 2
    MaxBacks = 1
    MaxSkew = 1
PROPERTIES
    PunctualEventuallyDelivered
    CancelledRunReturns
\* Run returns once its context is cancelled.
CHECK_DEADLOCK FALSE
