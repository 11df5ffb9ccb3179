SPECIFICATION FairSpec
CONSTANTS
    Urls = {u1, u2, u3, u4}
    Requests = {r1, r2, r3}
    Concurrency = 2
    Refused = {u4}
\* The cache may have been destroyed.
CHECK_DEADLOCK FALSE
INVARIANTS
    FetchedOnce
    EntryIsFetched
    PickedUpDone
    Awake
PROPERTIES
    Answered
    StopReturns
