CONSTANTS
    d1 = d1
    d2 = d2
    a1 = a1
    Descriptors = {d1, d2}
    Admins = {a1}
    Corrupt = {}
    MaxActive = 1
    MaxInbox = 2
    MaxCrashes = 0
SPECIFICATION Spec
SYMMETRY Symmetry
CHECK_DEADLOCK FALSE
INVARIANT NoneLeftBehind
