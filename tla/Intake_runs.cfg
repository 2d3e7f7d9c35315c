\* Two discovery runs at once, run after run, and prefilter.
SPECIFICATION Spec
CONSTANTS
    Companies <- MCCompanies
    Postings <- MCPostings
    BoardOf <- MCBoardOf
    TitleOf <- MCTitleOf
    Candidates <- MCCandidates
    TtlDays = 1
    Runners = {d1, d2}
    Listings <- MCListings
    Offer <- MCOffer
    Sources <- AllSources
    DeadHosts <- MCDeadHosts
    ResolveEmployer = TRUE
    AllowSourceOnly = FALSE
    MaxRuns = 2
    MaxNow = 1
    MaxChanges = 1
INVARIANTS
    TypeOK
    CountedAreStored
    NothingTwice
    RelinksAreFresh
    AppliableAreKept
PROPERTY UnlinkedWereAsked
CHECK_DEADLOCK FALSE
