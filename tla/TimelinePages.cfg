\* Any page number an int holds.
SPECIFICATION Spec
CONSTANTS
    Times = {1}
    Ids = {1}
    DefaultPageSize = 2
    MaxPageSize = 3
    Open = Open
    MaxInt = 31
    Sizes = {1, 2, 3}
    FirstPages <- AllPages
    MaxEvents = 2
INVARIANT EveryPageAnswered
CHECK_DEADLOCK FALSE
