SPECIFICATION Spec
CONSTANTS
    j1 = j1
    j2 = j2
    j3 = j3
    Jobs <- MCJobs
    Employer <- MCEmployer
    Posting <- MCPosting
    Markets <- AllGermany
    COUNTRIES <- Germany
    Counted <- CoveredOnly
    PICK_LIMIT = 2
    TARGET = 1
    OVERSHOOT = 1
    MAX_QUEUE = 1
    MIN_BATCH = 2
    FirstN = 1
    DailyCap = 2
    CompanyDaily = 1
    MaxDisturbances = 1
CHECK_DEADLOCK FALSE
INVARIANTS
    OneApplyAtATime
    QueueIsBounded
PROPERTY
    CoveredAreAttempted
