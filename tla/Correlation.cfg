\* Up to three metrics and three logs go through buffers of one and of two while one
\* query runs, a batch longer than the buffer included; the default tolerance is one
\* and a half seconds.
SPECIFICATION Spec
CONSTANTS
    Metrics <- MCMetrics
    Logs <- MCLogs
    NoTime = NoTime
    MaxMetrics = 1
    MaxLogs = 2
    Second = 2
    DefaultSkew = 3
    MaxInt = 15
    Queries <- MCQueries
    Absent = Absent
    MaxAdded = 3
INVARIANTS
    TypeOK
    NewestKept
    PairsReported
    ResultClosed
\* The query answers once and the bound on the signals is reached.
CHECK_DEADLOCK FALSE
