CONSTANTS
    src = src
    e1 = e1
    e2 = e2
    Send = {1, 2}
    Recv = {1, 2}
    Short = {2}
    Sender = {src}
    SrcOf <- AllFromSrc
    Env = {e1, e2}
    Sels <- OneAndAny
    UniqueSync = TRUE
SPECIFICATION FairSpec
INVARIANTS
    NoStaleAck
    ReservedUntilReceived
PROPERTIES
    MessagesSpec
    SsendCompletes
CHECK_DEADLOCK FALSE
