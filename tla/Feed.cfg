CONSTANTS
    Period = 4
    Week = 40
    Iods = 3
    MaxNow = 9
    SwitchLag = 1
    OrbitMax = 2
    ClockMax = 1
    None = None
SPECIFICATION Spec
CHECK_DEADLOCK FALSE
INVARIANTS
    TypeOK
    ClosestIsKept
    StaleIsSoonGone
    PairedOnLatest
PROPERTY OutageEnds
