CONSTANTS
    MaxEdges = 5
    MaxRestarts = 1
    TpLag = 1
    ReadLag = 2
    KeepSecs = 1
    BootDiscard = 1
    MaxResets = 1
SPECIFICATION Spec
CHECK_DEADLOCK FALSE
INVARIANTS
    TypeOK
    QerrOfItsEdge
    MixedPairIsCorrected
