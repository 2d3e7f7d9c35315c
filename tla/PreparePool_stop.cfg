\* Target, signals, errors and other processes: who stops when, and what is reported.
SPECIFICATION Spec
CONSTANTS
    NJobs = 3
    Workers = {w1, w2}
    Target = 1
    GiveUpAfter = 0
    Stages <- TailorAndCover
    StartStatuses <- ScoredOrTailored
    CanLimit = FALSE
    CanFail = TRUE
    MaxElsewhere = 1
    MaxSignals = 3
    MaxUnbooked = 2
SYMMETRY Symmetry
INVARIANTS
    TypeOK
    StopIsPrompt
    SummaryIsComplete
CHECK_DEADLOCK FALSE
