SPECIFICATION FairSpec
CONSTANTS
    u1 = u1
    u2 = u2
    Users <- MCUsers
    Calls <- MCCalls
    MaxEpochs = 3
    MaxKeys = 5
    MaxFaults = 1
    MaxDowngrades = 1
    MaxMoves = 2
CHECK_DEADLOCK FALSE
INVARIANTS
    SendsAsGroup
    HearsEveryone
PROPERTY
    Joins
