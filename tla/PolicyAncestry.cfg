CONSTANTS
    a1 = a1
    a2 = a2
    c2 = c2
    root = root
    c1 = c1
    r1 = r1
    r2 = r2
    Agents = {a1, a2}
    Root = root
    Calls = {c1, c2}
    Requests = {r1, r2}
    Scopes <- MCScopes
    Targets = {"file"}
    Covers <- MCCovers
    Length <- MCLength
    Databases <- MCDatabases
    MaxContexts = 0
    MaxDefaults = 0
SPECIFICATION Spec
SYMMETRY Symmetry
CHECK_DEADLOCK FALSE
PROPERTIES PoliciesHeeded AuthorityBounded
