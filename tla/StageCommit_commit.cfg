\* Stage workers of any processes, a human and prefilter on the same job.
SPECIFICATION Spec
CONSTANTS
    Jobs = {j1}
    Workers = {w1, w2}
    Writers = {p1}
    PlainKinds <- HumanKinds
    Targets <- HumanTargets
    MaxEvents = 5
SYMMETRY Symmetry
INVARIANTS
    TypeOK
    StageEventsContinueHistory
    AdvancedOnce
    StatusIsAVersion
PROPERTY LifecycleSpec
CHECK_DEADLOCK FALSE
