SPECIFICATION Spec
CONSTANTS
    Agents = {a1, a2}
    None = none
    MaxRuns = 3
    MaxEdits = 1
SYMMETRY Symmetry
INVARIANTS
    TypeOK
    ManagerErrorExplained
    NoExchangeLost
CHECK_DEADLOCK FALSE
