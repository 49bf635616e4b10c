SPECIFICATION Spec
CONSTANTS
    Tasks = {t1, t2, t3}
    Requests = {r1, r2}
    Targets = {"approved", "completed"}
    Approval = {TRUE}
    MaxTaskDepth = 2
SYMMETRY Symmetry
INVARIANTS
    TypeOK
    RowsConsistent
    DepthBounded
    NoWaitCycle
