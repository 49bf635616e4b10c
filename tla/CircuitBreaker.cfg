SPECIFICATION Spec
CONSTANTS
    Callers = {c1, c2, c3}
    FailureThreshold = 2
    FailureWindow = 2
    ResetInterval = 2
    MaxBreakers = 1
INVARIANTS
    TypeOK
    ClosedHasNoStreak
PROPERTIES
    OpensOnlyOnStreak
    OpenNeverClosesDirectly
    OpenEventuallyProbes
