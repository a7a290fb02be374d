SPECIFICATION SubscribersSpec
CONSTANTS
    Parts = {"aka", "aka faults", "sdm", "sdm faults", "store", "keys", "nef", "nrf", "tokens"}
    None = None
    a = a
    b = b
    p = p
    q = q
    r = r
SYMMETRY Interchangeable
\* Every part may come to rest.
CHECK_DEADLOCK FALSE
INVARIANTS
    WhatStandsIsWanted
    WhoBehavesIsServed
PROPERTIES
    VectorsAreFresh
    ImplementsStore
