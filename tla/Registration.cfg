SPECIFICATION Spec
CONSTANTS
    None = None
    Supis = {s1}
    Assocs = {a1, a2}
    MaxIds = 3
    MaxRegistrations = 1
    MaxSends = 2
    MaxAnReleases = 2
    MaxWithdrawals = 1
    MaxUpdates = 1
    MaxLosses = 1
    Refusals = {"auth", "synch", "nssai", "error"}
CHECK_DEADLOCK FALSE
INVARIANTS
    TmsisUnambiguous
    RefsAreLive
