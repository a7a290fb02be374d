SPECIFICATION ProgressSpec
CONSTANTS
    Parts = {"registration", "handover", "release", "setup", "nrf", "tokens", "uecm", "topology", "paging", "wakeup", "reach", "traffic", "charging"}
    None = None
\* Every part may come to rest.
CHECK_DEADLOCK FALSE
PROPERTIES
    ProceduresEnd
    ServiceReturns
    TrafficGetsItsDue
