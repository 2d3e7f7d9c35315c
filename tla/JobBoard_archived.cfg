SPECIFICATION BoardSpec
CONSTANTS
    Jobs = {j1, j2}
    Writers = {w1, w2}
    Markable <- MCMarkable
    MaxWrites = 3
CHECK_DEADLOCK FALSE
INVARIANT
    ArchivedStayPut
