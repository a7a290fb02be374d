SPECIFICATION Spec
CONSTANTS
    None = None
    Handlers = {h1, h2}
    PoolSize = 2
    Budget = 2
    Rates = {1}
    UpfCeiling = 2
    PcfAnswers = {TRUE}
    ChfAnswers = {TRUE}
    MaxCreates = 2
    MaxTimeouts = 0
    MaxReports = 1
    MaxChanges = 0
    MaxUpdates = 0
    MaxRestarts = 0
    MaxEvents = 2
SYMMETRY HandlerSymmetry
CHECK_DEADLOCK FALSE
INVARIANTS
    AddressesDistinct
