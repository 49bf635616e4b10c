SPECIFICATION Spec
CONSTANTS
    Models = {m1, m2, m3}
    Agents = {a1}
    Requests = {r1, r2}
    Turns = {t1}
    None = none
    MaxOps = 2
SYMMETRY Symmetry
INVARIANTS
    TypeOK
    AtMostOneDefault
    StaleClientsExplained
PROPERTIES
    DefaultHandedOver
CHECK_DEADLOCK FALSE
