SPECIFICATION LifecycleSpec
CHECK_DEADLOCK FALSE
CONSTANTS
    Named = {"OTHER"}
    Files <- MCFiles
    Domains <- MCDomains
    Capacity = 2
    MaxPlan = 3
INVARIANTS
    LifecycleTypeOK
    NoAmbient
    NearestToken
    OnlyOutsideHoldsUp
PROPERTIES
    ShutdownEnds
