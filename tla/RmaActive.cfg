CONSTANTS
    N = 3
    MaxOps = 1
    Programs <- AllPrograms
SPECIFICATION FairSpec
INVARIANTS
    TypeOK
    AccessInExposure
    CleanOutsideEpochs
PROPERTIES
    EpochComplete
    RefusedIffWrong
    ProgramsFinish
CHECK_DEADLOCK FALSE
