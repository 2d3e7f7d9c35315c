SPECIFICATION Spec
CONSTANTS
    Launchers = {l1, l2}
    MaxKills = 1
    Sites = {s1, s2}
    Clients = {p1, p2}
    MaxPasswords = 2
    MaxEdits = 1
    Requests = {t1, t2}
    MaxSpawned = 3
    Readers = {r1, r2}
    MaxVersion = 4
    Rows <- MCRows
    Asks <- MCAsks
    Key <- MCKey
    KnownBig <- MCKnownBig
    PoolSize = 4
    LIMIT = 2
    PER_COMPANY_CAP = 2
    MAX_REJECTIONS = 2
    GHOST_APPS = 1
    MIN_POSTINGS = 2
    Callers = {c1, c2, c3}
    Default = 1
    Pools = {1, 2}
    MaxGates = 2
    MaxCalls = 2
    Pages <- MCPages
    MaxRounds = 2
    Facts = {"degree", "hobby"}
    Optional = {"hobby"}
    Inventions = {"award"}
    Replies <- MCReplies
    Workers = {w1, w2}
    MaxMarks = 2
SYMMETRY Symmetry
CHECK_DEADLOCK FALSE
INVARIANTS
    OpenIsComplete
    OpensAgain
    VaultHolds
    OneAtATime
    CurrentIsFresh
    EmployersAreSpared
    GateHolds
    NothingIsLost
    FilesWereChecked
    KeptIsRendered
