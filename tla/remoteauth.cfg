SPECIFICATION FairLoginSpec
CONSTANTS
    MaxConn = 3
    MaxDepth = 4
\* The dialog ends.
CHECK_DEADLOCK FALSE
INVARIANTS
    NoCrash
    ListensToOne
    TokenIsReadable
PROPERTIES
    StepsAsConnection
    Concludes
