CONSTANTS
    s1 = s1
    s2 = s2
    r1 = r1
    r2 = r2
    p1 = p1
    NULL = NULL
    SReq <- TwoS
    RReq <- TwoR
    Rank <- OneRank
    RankOf <- AllOnP1
    TagOf <- SameTag
    CtxOf <- SameCtx
    Parts <- OneEach
    MaxRounds = 2
    Separated = FALSE
    EarlyFree = TRUE
SPECIFICATION Spec
INVARIANTS
    NoMissedMatch
    PairedInProgramOrder
    NoDanglingRequest
CHECK_DEADLOCK FALSE
