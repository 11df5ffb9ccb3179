SPECIFICATION FairSpec
CONSTANTS
    MaxConn = 4
    MaxOrders = 4
    MaxFaults = 2
    MaxDepth = 4
    Overlap = FALSE
\* The last order may have been carried out.
CHECK_DEADLOCK FALSE
INVARIANTS
    OwnSession
    NoCrash
    VoiceBeats
    ReaderHasSocket
PROPERTIES
    ImplementsConnection
    StopEventuallyReturns
    Establishes
