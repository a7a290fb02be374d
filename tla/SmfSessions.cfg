SPECIFICATION Spec
CONSTANTS
    None = None
    Handlers = {h1, h2}
    PoolSize = 2
    Budget = 3
    Rates = {1, 2}
    UpfCeiling = 2
    PcfAnswers = {FALSE}
    ChfAnswers = {FALSE}
    MaxCreates = 3
    MaxTimeouts = 2
    MaxReports = 0
    MaxChanges = 0
    MaxUpdates = 2
    MaxRestarts = 0
    MaxEvents = 3
SYMMETRY HandlerSymmetry
CHECK_DEADLOCK FALSE
INVARIANTS
    AddressesDistinct
    ReservedIsPromised
    DownlinkIsOwners
