SPECIFICATION Spec
CONSTANTS
    Clients = {c1, c2}
    None = none
    MaxOps = 3
SYMMETRY Symmetry
INVARIANTS
    TypeOK
    StaleOnlyIfOvertaken
PROPERTIES
    RegistryKeepsPromise
    UnnamedFieldsKept
CHECK_DEADLOCK FALSE
