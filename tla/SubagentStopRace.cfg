CONSTANTS
    j1 = j1
    j2 = j2
    j3 = j3
    s1 = s1
    None = None
    Jobs = {j1, j2, j3}
    Messages = {}
    Stoppers = {s1}
    Grants <- MCDelegates
    MaxConcurrency = 2
    MaxDepth = 2
    MaxJobs = 3
    Flaky = {}
SPECIFICATION Spec
SYMMETRY Symmetry
CHECK_DEADLOCK FALSE
INVARIANT StopQuietsSubtree

