SPECIFICATION FairSpec
CONSTANTS
    c1 = c1
    c2 = c2
    c3 = c3
    Radio = Radio
    None = None
    Client = {c1, c2, c3}
    Talker = {c1}
    Lazy = {c2}
    Limit = 2
    MaxBroadcasts = 1
INVARIANTS ListIsRight StopLeavesNothing
PROPERTIES CallsReturnOrJoin
CHECK_DEADLOCK FALSE
