SPECIFICATION FairSpec
CONSTANTS
    Targets = {x1}
    Threads = {t1, t2}
    MaxBase = 1
    MaxRequests = 2
    MaxPending = 1
CHECK_DEADLOCK FALSE
INVARIANT PolicyInForce
PROPERTY AbortUnblocks
