CONSTANTS
    Bodies <- MCBodies
    Prefix <- MCPrefix
    Weight <- MCWeight
    Metadata <- MCMetadata
    Candidates = {"c1", "c2"}
    Version <- MCVersion
    Foreign <- MCForeign
    Support = {TRUE, FALSE}
    Faults = {"lost", "malformed", "crash", "unauthorized", "restore", "ancestry"}
    MaxFaults = 2
    MaxForeign = 1
    MaxOps = 6
SPECIFICATION FairSpec
CHECK_DEADLOCK FALSE
INVARIANT OperationsFenced
PROPERTIES StoreKept EveryCandidateArchived
