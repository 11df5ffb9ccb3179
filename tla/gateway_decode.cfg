SPECIFICATION FairSpec
CONSTANTS
    MaxConn = 3
    MaxFaults = 2
    MaxLogins = 1
    MaxDepth = 4
    ServerOps = {"Reconnect", "InvalidSession"}
    LateFrames = TRUE
    SplitFrames = FALSE
    UserInPump = FALSE
\* A stopped client whose user has no login left may stay so for ever.
CHECK_DEADLOCK FALSE
PROPERTY
    FullMessageIsQueued
