SPECIFICATION Spec
CONSTANTS
    j1 = j1
    j2 = j2
    j3 = j3
    Jobs <- MCJobs
    Employer <- MCEmployer
    Posting <- EachItsOwn
    Markets <- AllGermany
    COUNTRIES <- Germany
    Counted <- CoveredAndDry
    PICK_LIMIT = 3
    TARGET = 3
    OVERSHOOT = 0
    MAX_QUEUE = 2
    MIN_BATCH = 3
    FirstN = 1
    DailyCap = 1
    CompanyDaily = 1
    MaxDisturbances = 0
CHECK_DEADLOCK FALSE
PROPERTY
    PauseEnds
