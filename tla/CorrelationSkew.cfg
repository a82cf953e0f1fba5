\* One second is two units of time, the default tolerance three.
SPECIFICATION Spec
CONSTANTS
    Metrics <- MCMetrics
    Logs <- MCLogs
    NoTime = NoTime
    MaxMetrics = 2
    MaxLogs = 2
    Second = 2
    DefaultSkew = 3
    MaxInt = 15
    Queries <- SkewQueries
    Absent = Absent
    MaxAdded = 2
INVARIANT SkewAsDocumented
CHECK_DEADLOCK FALSE
