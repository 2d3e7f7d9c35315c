\* Two syncs, a human, mail in any order.
SPECIFICATION Spec
CONSTANTS
    j1 = j1
    j2 = j2
    Jobs = {j1, j2}
    Messages = {m1, m2}
    Syncs = {p1, p2}
    Reports <- AllReports
    StartStatuses <- TrackedOrNot
    MaxCandidates = 1
    HumanMoves <- HumanVerdicts
    MaxBatch = 2
    MaxHuman = 1
SYMMETRY Symmetry
INVARIANTS
    TypeOK
    MovedOnce
    OutcomeStands
CHECK_DEADLOCK FALSE
