CONSTANTS
    Proposals = {0, 1, 2}
    KLong = 3
    MwMinEpochs = 3
    Consecutive = 2
    MinSamples = 2
    Travel = 2
    CleanWindow = 8
    EvalEvery = 2
    SlipCooldown = 1
    IfCooldown = 2
    None = None
SPECIFICATION Spec
INVARIANTS
    TypeOK
    EasedIsEarned
    EvidenceIsOfThisFix
