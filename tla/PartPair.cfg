CONSTANTS
    s1 = s1
    s2 = s2
    r1 = r1
    r2 = r2
    p1 = p1
    NULL = NULL
    SReq <- TwoS
    RReq <- TwoR
    Rank <- OneRank
    RankOf <- AllOnP1
    TagOf <- SpacedTags
    CtxOf <- SameCtx
    Parts <- Mixed
    MaxRounds = 2
    Separated = TRUE
    EarlyFree = TRUE
SPECIFICATION FairSpec
INVARIANTS
    TypeOK
    CompletionCounterExact
    ArrivedImpliesIssued
    NoCrash
    HandshakeInv
    NoUnexpectedData
    DataOfOwnRound
PROPERTIES
    RoundsComplete
CHECK_DEADLOCK FALSE
