CONSTANTS
    x = x
    y = y
    Rank = {0, 1, 2}
    Home = 0
    Loc = {x, y}
    Width = 2
    Calls <- Together
    MaxCalls <- CallsOf
SPECIFICATION Spec
PROPERTY FetchesWhatItReplaces
CHECK_DEADLOCK FALSE
