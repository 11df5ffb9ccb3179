SPECIFICATION FairSpec
CONSTANTS
    MaxConn = 5
    MaxFaults = 3
    MaxLogins = 1
    MaxDepth = 4
    ServerOps = {"Reconnect", "InvalidSession"}
    LateFrames = FALSE
    SplitFrames = TRUE
    UserInPump = FALSE
\* The user may have disconnected and used the last login.
CHECK_DEADLOCK FALSE
INVARIANTS
    QueuesMatch
    NoCrash
    SessionBeats
PROPERTIES
    FullMessageIsQueued
    ImplementsConnection
    StopEventuallyReturns
    Recovers
