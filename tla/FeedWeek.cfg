CONSTANTS
    Period = 4
    Week = 16
    Iods = 3
    MaxNow = 18
    SwitchLag = 1
    OrbitMax = 2
    ClockMax = 1
    None = None
SPECIFICATION Spec
CHECK_DEADLOCK FALSE
INVARIANT NewestIsKept
