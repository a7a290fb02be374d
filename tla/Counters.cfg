SPECIFICATION CountersSpec
CONSTANTS
    \* NAS: eight SNs for 256
    Half = 4
    MaxCount = 18
    \* PDCP: eight SNs, three hyper frames
    Window = 4
    Hfns = 3
    Integrity = FALSE
    Skew = 3
    MaxNet = 3
    \* the policer
    Rates = {0, 2, 5}
    MinBurst = 3
    Second = 3
    Sizes = {1, 3}
    Metered = TRUE
    MaxGap = 4
    MaxVolume = 14
    \* the AMF's times
    T3512Secs = 3240
    ImplicitDeregSecs = 3480
    SweepSecs = 60
    Step = 30
CHECK_DEADLOCK FALSE
INVARIANTS
    AcceptedInOrder
    AcceptsExactlyTheWindow
    EstimateIsClosest
    OpenedAsSealed
    RateIsBounded
    
    EvictedInTime
