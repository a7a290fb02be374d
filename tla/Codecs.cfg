SPECIFICATION CodecsSpec
CONSTANTS
    Parts = {"ngap", "nas", "ran", "gtpu", "sm", "n4"}
    None = None
    Bad = Bad
    Refused = Refused
    Other = Other
\* A message comes to rest.
CHECK_DEADLOCK FALSE
INVARIANTS
    ReadBack
    NotMisread
