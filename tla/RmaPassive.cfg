CONSTANTS
    N = 3
    Scenarios <- AllScenarios
    Ordering = TRUE
SPECIFICATION Spec
INVARIANTS
    TypeOK
    MutualExclusion
    LockCountExact
    EpochTracksLocks
    PendingAccumulateFlag
    CleanBetweenEpochs
PROPERTIES
    RemoteCompletion
    QueueOrder
