CONSTANTS
    SV = {s1}
    SlipCooldown = 1
    IfCooldown = 2
    MwMinEpochs = 2
    MinCohort = 1
    Threshold = 1
    EvalEvery = 2
    TripCooldown = 1
    CollapseEvals = 1
    NavCooldown = 1
    ArcRestart = 1
    SlipStale = 1
    ForgetAfter = 2
    Inheritable = {}
SPECIFICATION Spec
PROPERTIES
    ArcGapEndsIntegers
