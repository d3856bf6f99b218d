\* Three keys, two threads sharing the pool, limits that come and go.
SPECIFICATION FairSpec
CONSTANTS
    N = 3
    Callers = {c1, c2}
    OtherErrors = TRUE
    MaxPicks = 2
INVARIANTS
    FullTurnBeforeFallback
    UndisturbedTriesAllKeys
    Balanced
PROPERTY
    InvokeReturns
