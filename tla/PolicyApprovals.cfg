CONSTANTS
    a1 = a1
    root = root
    c1 = c1
    r1 = r1
    r2 = r2
    Agents = {a1}
    Root = root
    Calls = {c1}
    Requests = {r1, r2}
    Scopes <- MCScopes
    Targets = {"file"}
    Covers <- MCCovers
    Length <- MCLength
    Databases <- MCEmptyDatabase
    MaxContexts = 1
    MaxDefaults = 1
SPECIFICATION FairSpec
CHECK_DEADLOCK FALSE
PROPERTIES LateReplyInert EveryRequestAnswered
