CONSTANTS
    SV = {s1, s2}
    SlipCooldown = 1
    IfCooldown = 3
    MwMinEpochs = 2
    MinCohort = 2
    Threshold = 2
    EvalEvery = 2
    TripCooldown = 2
    CollapseEvals = 1
    NavCooldown = 1
    ArcRestart = 1
    SlipStale = 1
    ForgetAfter = 1
    Inheritable = {s1, s2}
SYMMETRY Symmetry
SPECIFICATION Spec
INVARIANTS
    TypeOK
    TrackedFixIsReal
    SquelchOnlyWhileWaiting
    RejectedStaysOut
    WlOnlyStopsAtConverging
    LatchesCoverState
    CollapseNeedsAnchored
PROPERTIES
    ImplementsLifecycle
    AnchoredIsBacked
    LatchesFallOnlyInTrip
