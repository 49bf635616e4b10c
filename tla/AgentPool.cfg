SPECIFICATION Spec
CONSTANTS
    Agents = {a1, a2}
    Tasks = {t1}
    Calls = {c1, c2}
    Messages = {}
    Waits = {}
    RunStorage = TRUE
    MaxConcurrent = 1
    MaxTurns = 1
    MaxCtx = 2
SYMMETRY Symmetry
INVARIANT TypeOK
INVARIANT DoneIsSignalled
INVARIANT WithinLimit
INVARIANT CompletionRecorded
CHECK_DEADLOCK FALSE
