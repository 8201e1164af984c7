CONSTANTS
    WinMax = 4
    PpsCap = 2
    QueueCap = 2
    HistCap = 3
    AgeMax = 8
    MaxLag = 1
    ReadMax = 1
    StallMax = 1
    GetTimeout = 1
    IdleLimit = 3
SPECIFICATION Spec
INVARIANTS
    TypeOK
    SilenceIsHoldover
PROPERTIES
    HeadNotBlocking
    EdgesAdvance
    DropsAreJustified
