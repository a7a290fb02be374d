SPECIFICATION MobilitySpec
CONSTANTS
    Parts = {"registrations", "resync", "returns", "session", "sessions", "paging", "slices", "areas", "f1", "uu"}
    None = None
    a = a
    b = b
    TheRegistrations <- SomeRegistrations
    TheResync <- SomeResync
    TheReturns <- SomeReturns
    TheSession <- SomeSession
    TheTwoSessions <- SomeTwoSessions
    ThePaging <- SomePaging
    TheSlices <- SomeSlices
    TheAreas <- SomeAreas
SYMMETRY Interchangeable
\* Every part may come to rest.
CHECK_DEADLOCK FALSE
INVARIANTS
    SlotFollowsRegistration
    SmContextsAreOwned
    DownlinkFollowsRan
    UeAreaIsPaged
    SlicesAreEnforced
    UesAreKeptApart
PROPERTIES
    EntryAgrees
