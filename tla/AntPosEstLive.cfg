CONSTANTS
    SV = {s1}
    SlipCooldown = 2
    IfCooldown = 2
    MwMinEpochs = 2
    MinCohort = 1
    Threshold = 1
    EvalEvery = 2
    TripCooldown = 2
    CollapseEvals = 2
    NavCooldown = 2
    ArcRestart = 1
    SlipStale = 1
    ForgetAfter = 2
    Inheritable = {s1}
SPECIFICATION LiveSpec
PROPERTIES
    WaitingEnds
    AnchorsReturnOrTrip
