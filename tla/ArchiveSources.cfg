CONSTANTS
    d1 = d1
    d2 = d2
    a1 = a1
    Descriptors = {d1, d2}
    Admins = {a1}
    Corrupt = {}
    MaxActive = 1
    MaxInbox = 1
    MaxCrashes = 1
    f1 = f1
    f2 = f2
    f3 = f3
    Nobody = Nobody
    SourceFiles <- MCFiles
    Ids = {"i1", "i2", "i3"}
    Contents <- MCContents
    ActiveSession <- MCActive
    Memberships = {"current", "all"}
    ReviewPage = 2
    MaxReady = 2
    MaxRewrites = 1
    MaxRecords = 2
    MaxWrites = 4
    Attempts = 3
    Uploaders = {u1, u2}
    Snapshots <- MCSnapshots
    Backlog = 3
    Nothing = Nothing
    MaxOperations = 3
SPECIFICATION MCSpec
SYMMETRY Symmetry
CHECK_DEADLOCK FALSE
INVARIANTS HandoffConsistent FamiliesCurrent CaptureIsCoherent EvidenceKept
PROPERTY EventCoversCommit
