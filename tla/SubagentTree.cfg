CONSTANTS
    j1 = j1
    j2 = j2
    j3 = j3
    s1 = s1
    None = None
    Jobs = {j1, j2, j3}
    Messages = {}
    Stoppers = {s1}
    Grants <- MCGrants
    MaxConcurrency = 1
    MaxDepth = 2
    MaxJobs = 2
    Flaky = {j1}
    w1 = w1
    w2 = w2
    WaitScopes <- MCChain
    Above <- MCChainAbove
    Budget <- MCChainBudget
    Waits = {w1, w2}
    Chunk = 2
    MaxTime = 3
SPECIFICATION MCSpec
SYMMETRY MCSymmetry
CHECK_DEADLOCK FALSE
INVARIANTS NoSessionLeak PrincipalTree TreeConsistent WaitsAccounted
PROPERTY StopRequestHonoured
