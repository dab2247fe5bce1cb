CONSTANTS
    N = 3
    Scenarios <- Exclusive
    Ordering = TRUE
SPECIFICATION FairSpec
PROPERTIES
    EveryLockGranted
