SPECIFICATION LiveSpec
CONSTANTS
    Agents = {a1}
    Tasks = {}
    Calls = {c1, c2}
    Messages = {m1}
    Waits = {"agent", "all"}
    RunStorage = FALSE
    MaxConcurrent = 0
    MaxTurns = 1
    MaxCtx = 2
INVARIANT NeverReportsRunning
INVARIANT ReportedIsAnnounced
PROPERTY WaitsEnd
CHECK_DEADLOCK FALSE
