SPECIFICATION Spec
CONSTANTS
    Ssrcs = {s1, s2}
    TsWrap = 3
    SeqWrap = 4
    MaxCalls = 3
    MaxClock = 5
    MaxDepth = 2
    Overlap = FALSE
\* The last call may be over.
CHECK_DEADLOCK FALSE
INVARIANTS
    SentInOwnCall
    HeardInThisCall
PROPERTY
    TimestampsAreLinear
