SPECIFICATION Spec
CONSTANTS
    None = None
    UEs = {u1}
    Gnbs = {g1, g2, g3}
    InitNcc = 7
    MaxHandovers = 2
    MaxPathSwitches = 1
    MaxSlow = 1
SYMMETRY GnbSymmetry
CHECK_DEADLOCK FALSE
INVARIANTS
    SingleOwner
    DirectoryFollowsOwner
