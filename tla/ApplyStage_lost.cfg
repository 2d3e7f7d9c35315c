\* The record, dedup and progress, with crashes, exceptions and wrong reports.
SPECIFICATION FairSpec
CONSTANTS
    NJobs = 3
    Company <- TwoEmployers
    UrlHash <- SharedPosting
    Walled <- FirstJob
    Consumers = {c1}
    Modes <- RealModes
    FirstN = 1
    DailyCap = 5
    CompanyDailyCap = 0
    CompanyTotalCap = 2
    StartStatuses <- Covered
    Slips <- AllSlips
    Moves <- HumanMoves
    MaxDisturbances = 2
    MaxNow = 0
INVARIANTS
    TypeOK
    SentAgainOnlyIfLost
    SendsAreRecorded
PROPERTY QueueDrains
CHECK_DEADLOCK FALSE
