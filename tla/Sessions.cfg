SPECIFICATION SessionsSpec
CONSTANTS
    Parts = {"chain", "faults", "topology", "authorization", "binding", "refresh", "policy", "control", "traffic", "charging"}
    None = None
    Null = Null
    Garbled = Garbled
    a = a
    b = b
    \* authorization: one address left in each pool
    Requests = {a, b}
    Asks <- SomeAsks
    Typed <- SomeTyped
    SelectDocs <- SomeSelectDocs
    SmDocs <- SomeSmDocs
    Pool4 = 1
    Pool6 = 1
    DocChanges = 2
    \* binding and refresh
    RuleIds = {1, 2}
    MadeDecisions <- EveryDecision
    LaterDecisions <- SomeDecisions
    DecisionChanges = 2
    \* policy: two updates of one association, an influence, a lost answer
    PolicySessions = {"s1"}
    Updates = {a, b}
    Influences = {"af"}
    PolicyDocs <- SomePolicyDocs
    Default <- LocalDefault
    UdrFails = TRUE
    PolicyChanges = 1
    MaxUpdates = 2
    MaxLosses = 1
    \* traffic: one session, measured, idle or chained, and four packets
    Peers = {"smf1"}
    Ues <- SomeUes
    Tunnels = {1}
    FlowQfis = {2}
    Filters <- UdpOnly
    Gates <- AlwaysOpen
    Rates = {0}
    BranchFilters <- ToTheEdge
    Thresholds = {2}
    Packets <- SomePackets
    Kinds = {"anchor", "chain", "idle"}
    MaxSessions = 1
    DlBufferCap = 2
    MaxSeid = 1
    MaxCalls = 5
    MaxTraffic = 4
    \* charging
    Threshold = 2
    Quota = 4
    MaxVolume = 7
    MaxReleases = 2
    ChargingFaults = 2
SYMMETRY Interchangeable
\* Every part may come to rest.
CHECK_DEADLOCK FALSE
INVARIANTS
    PathIsSound
    SessionsAreAuthorized
    PolicyIsInForce
    UpfHasWhatSmfAsked
    NeverOverbilled
PROPERTIES
    BilledOnce
