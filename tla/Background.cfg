CONSTANTS
    Settings = {"a", "b"}
    Items = {"file", "global"}
    MaxSaves = 2
    MaxRevisions = 2
    MaxInterruptions = 1
    Dirs = {"root", "sub"}
    Collections = {"root"}
    Seeds <- MCSeeds
    ActiveFile = "act"
    Initially <- MCInitially
    Fresh = {"g"}
    EntryBudget = 3
    PageLimit = 2
    MaxChanges = 1
    MaxDiscoveryFaults = 2
SPECIFICATION MCSpec
CHECK_DEADLOCK FALSE
INVARIANTS ExchangeSafe DiscoveryComplete RemovalIsSafe
PROPERTIES MaskNeverDeletes WorkEnds
