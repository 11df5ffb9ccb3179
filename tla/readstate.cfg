SPECIFICATION FairSpec
CONSTANTS
    Channels = {c1, c2}
    JoinedAt = 2
    MaxMessages = 3
    MaxMarks = 2
    MaxFaults = 1
\* The last message may have been posted and read.
CHECK_DEADLOCK FALSE
INVARIANTS
    NoneMissed
    NoneInvented
    MentionsCounted
PROPERTY
    MarkedBecomesRead
