CONSTANTS
    s1 = s1
    s2 = s2
    r1 = r1
    r2 = r2
    p1 = p1
    NULL = NULL
    SReq <- OneS
    RReq <- OneR
    Rank <- OneRank
    RankOf <- AllOnP1
    TagOf <- SameTag
    CtxOf <- SameCtx
    Parts <- TwoEach
    MaxRounds = 2
    Separated = FALSE
    EarlyFree = FALSE
SPECIFICATION Spec
INVARIANT NoCrash
