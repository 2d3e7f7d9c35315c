SPECIFICATION BoardSpec
CONSTANTS
    Jobs = {j1, j2}
    Writers = {w1, w2}
    Markable <- MCMarkable
    MaxWrites = 3
SYMMETRY Symmetry
CHECK_DEADLOCK FALSE
INVARIANTS
    FunnelNarrows
    PanelsAgree
