CONSTANTS
    MaxAttempts = 3
    PpsTries = 3
    OutlierLimit = 3
    LargeLimit = 2
    SettleWindow = 2
SPECIFICATION LiveSpec
CHECK_DEADLOCK FALSE
INVARIANTS
    TypeOK
    UnsteeredIsFreerun
    LostServoNeverRelocks
PROPERTIES
    UnsettledIsDemoted
    HoldoverRequalifies
    ImplementsLadder
    StopIsHonoured
