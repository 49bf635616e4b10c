SPECIFICATION GraphSpec
CONSTANTS
    Agents = {a1, a2, a3}
    Schemas = {s1, s2}
    First = s1
    Clients = {c1, c2}
    None = none
    MaxRelations = 3
    MaxOps = 3
SYMMETRY Symmetry
INVARIANTS
    GraphTypeOK
    CheckedEdgesAcyclic
PROPERTIES
    UnnamedFieldsKept
CHECK_DEADLOCK FALSE
