\* Three submissions, one of an install that may have a cap of its own and one
\* with an API key, across a reset hour and an edit of the caps.
SPECIFICATION FairSpec
CONSTANTS
    None = None
    w1 = w1
    w2 = w2
    k1 = k1
    Requests = {w1, w2, k1}
    Keyed = {k1}
    Installed = {w2}
    Limits = {1}
    MaxLive = 1
    MaxRecent = 1
    KeyLimit = 1
    Hours = 1
    MaxDay = 1
    MaxEdits = 1
    TopCap = 1
INVARIANTS
    NeverOverCap
    UsedIsCharged
PROPERTIES
    RefusedOnlyWhenFull
    EveryRequestAnswered
\* Requests are used once: when all are answered nothing is left to do.
CHECK_DEADLOCK FALSE
