SPECIFICATION Spec
CONSTANTS
    Queries = {q1, q2}
    Messages <- MCMessages
    MinimalDefaultTTL = 1
    MaximumDefaultTTL = 5
    minpttl = 0
    pttl = 3
    minnttl = 1
    nttl = 2
    prefetch = 1
    duration = 1
    percentage = 40
    MaxNow = 3
    MaxItems = 3
    MaxServed = 2
    None = None
INVARIANTS TypeOK CachedAnswerIsLive CopyReachesNewItem
SYMMETRY Symmetry
