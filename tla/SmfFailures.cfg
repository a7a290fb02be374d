SPECIFICATION Spec
CONSTANTS
    None = None
    Handlers = {h1, h2}
    PoolSize = 2
    Budget = 3
    Rates = {1, 2}
    UpfCeiling = 1
    PcfAnswers = {TRUE}
    ChfAnswers = {TRUE}
    MaxCreates = 2
    MaxTimeouts = 1
    MaxReports = 1
    MaxChanges = 1
    MaxUpdates = 1
    MaxRestarts = 1
    MaxEvents = 2
SYMMETRY HandlerSymmetry
CHECK_DEADLOCK FALSE
INVARIANTS
    NoAddressLost
