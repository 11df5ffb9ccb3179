SPECIFICATION Spec
CONSTANTS
    Users = {me, u1}
    Me = me
    Channels = {c1, c2}
    NoChannel = none
    MaxMoves = 2
    MaxClicks = 2
    MaxDrops = 0
    Nesting = {{"event"}}
\* The server may have made its last move.
CHECK_DEADLOCK FALSE
INVARIANT
    NullMeansDisconnect
