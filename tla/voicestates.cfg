SPECIFICATION Spec
CONSTANTS
    Users = {me, u1}
    Me = me
    Channels = {c1, c2}
    NoChannel = none
    MaxMoves = 3
    MaxClicks = 2
    MaxDrops = 1
    Nesting = {{}, {"event", "open"}}
\* The server may have made its last move.
CHECK_DEADLOCK FALSE
INVARIANTS
    MapsAgree
    PresentAreListed
    FollowsServer
    OwnCall
