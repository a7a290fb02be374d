SPECIFICATION CblSpec
CONSTANTS
    Handlers = {h1, h2}
    Operators = {o1}
    Slots = {s1, s2}
    Thresholds = {0, 2}
    InitThreshold = 1
INVARIANTS
    OngoingCountsSlots
    WithinHighestThreshold
PROPERTY
    LeaseReclaimsSlot
