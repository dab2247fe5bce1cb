CONSTANTS
    Proc = {0, 1, 2, 3}
    Programs <- SomePrograms
SPECIFICATION FairSpec
INVARIANTS
    NoFailure
    LiveCommConnected
    RefcountExact
PROPERTIES
    AllReturn
CHECK_DEADLOCK FALSE
