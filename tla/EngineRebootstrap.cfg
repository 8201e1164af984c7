CONSTANTS
    MaxAttempts = 3
    PpsTries = 3
    OutlierLimit = 3
    LargeLimit = 2
    SettleWindow = 2
SPECIFICATION Spec
CHECK_DEADLOCK FALSE
INVARIANTS
    ReattemptsRun
