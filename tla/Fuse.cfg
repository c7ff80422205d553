SPECIFICATION MCSpec
CONSTANTS
    Mounts = {m1, m2}
    MaxStates = 2
    Threads = {t1, t2}
    None = None
    Real = {"a", "h"}
    Hidden = "h"
    Link = "l"
    Tables <- MCTables
    MaxRenames = 2
    MaxRefreshes = 1
SYMMETRY MCSymmetry
CHECK_DEADLOCK FALSE
INVARIANT HandlesSound
PROPERTY SessionSafe
