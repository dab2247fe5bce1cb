CONSTANTS
    x = x
    y = y
    Rank = {0, 1, 2}
    Home = 0
    Loc = {x, y}
    Width = 2
    Calls <- Apart
    MaxCalls <- CallsOf
SPECIFICATION FairSpec
INVARIANTS
    OneLockHolder
PROPERTIES
    MemorySpec
    CallsComplete
CHECK_DEADLOCK FALSE
