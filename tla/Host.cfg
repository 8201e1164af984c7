CONSTANTS
    Site = {a, b}
    None = None
    MaxAttempts = 3
    BackoffMax = 2
    MaxRetries = 1
    LsTries = 2
    SaveAfter = 2
SPECIFICATION Spec
INVARIANTS
    TypeOK
    WrongSiteIsUnchecked
    RelaunchesAreBounded
PROPERTIES
    DeadIsRelaunched
