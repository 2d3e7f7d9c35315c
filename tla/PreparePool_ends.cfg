\* How a drive ends: by its target, a persistent usage limit, or a signal.
SPECIFICATION FairSpec
CONSTANTS
    NJobs = 4
    Workers = {w1, w2}
    Target = 1
    GiveUpAfter = 1
    Stages <- TailorAndCover
    StartStatuses <- ScoredOrTailored
    CanLimit = TRUE
    CanFail = TRUE
    MaxElsewhere = 0
    MaxSignals = 1
    MaxUnbooked = 1
INVARIANTS
    OvershootIsBounded
    LimitIsBounded
PROPERTY DriveEnds
CHECK_DEADLOCK FALSE
