CONSTANTS
    j1 = j1
    j2 = j2
    m1 = m1
    s1 = s1
    None = None
    Jobs = {j1, j2}
    Messages = {m1}
    Stoppers = {s1}
    Grants <- MCDelegates
    MaxConcurrency = 1
    MaxDepth = 1
    MaxJobs = 2
    Flaky = {}
    r1 = r1
    r2 = r2
    Reviews = {r1, r2}
    Heedless = {r2}
    MaxPendingApprovals = 1
    ModelOrder <- MCModelOrder
    Catalogues <- MCCatalogues
    EstimatedInput = 2
    Preferred = {"b"}
    Requests = {"q1", "q2"}
    Signalled = {"q1"}
    Nothing = Nothing
    Lifetimes <- MCLifetimes
    Screens <- MCScreens
    Essential <- MCEssential
    Optional <- MCOptional
    Details = 6
    MaxOffset = 1
SPECIFICATION MCSpec
CHECK_DEADLOCK FALSE
INVARIANTS FollowUpsHeld SelectionOrdered PromptFaithful
PROPERTIES TerminalFinal Progress ReviewsInTime PromptCompletes
