\* The caps, when every submission is reported.
SPECIFICATION Spec
CONSTANTS
    NJobs = 4
    Company <- FourRoles
    UrlHash <- FourPostings
    Walled <- NoJob
    Consumers = {c1}
    Modes <- CautiousModes
    FirstN = 1
    DailyCap = 1
    CompanyDailyCap = 1
    CompanyTotalCap = 2
    StartStatuses <- Covered
    Slips <- ByHand
    Moves <- Reopened
    MaxDisturbances = 1
    MaxNow = 4
INVARIANTS
    CapsHold
CHECK_DEADLOCK FALSE
