\* A client walks the pages while up to four events are appended; page sizes
\* are defaulted (0), clamped (9) and refused (-1).
SPECIFICATION Spec
CONSTANTS
    Times = {1, 2}
    Ids = {1, 2}
    DefaultPageSize = 2
    MaxPageSize = 3
    Open = Open
    MaxInt = 31
    Sizes <- ClientSizes
    FirstPages = {0, 1, 12}
    MaxEvents = 4
INVARIANTS
    TypeOK
    NoOmission
    ExactWhenQuiet
    WalkAnswered
\* The client stops and the timeline is full.
CHECK_DEADLOCK FALSE
