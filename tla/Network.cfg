SPECIFICATION MCSpec
CONSTANTS
    Flows = {"q", "t", "x"}
    Conns = {"c1", "c2"}
    MaxApprovals = 1
    MaxRelays = 1
    MaxRequests = 2
    Operation <- MCOperation
    Synthetic = {"t"}
    Scope <- MCScope
    ScopeCovers <- MCScopeCovers
    QueueLength = 2
    MaxPackets = 3
    Queries = {"d1", "d2", "d3"}
    Answers = {"a", "b"}
    Asked <- MCAsked
    MaxLeases = 3
    BufferSize = 2
    MaxBytes = 3
    Mounts = {m1}
    MaxStates = 1
    Plans <- MCPlans
    Pages <- MCPages
    Streams <- MCStreams
    Sites = {"a", "brave", "native"}
    Matching = {"a"}
    MaxResults = 2
    MaxRedirects = 2
CHECK_DEADLOCK FALSE
INVARIANTS GatewayOrderly VerdictsSound RunContained LeasesSound RelayFaithful SearchSound
PROPERTY TrafficSettles
