SPECIFICATION FairSpec
CONSTANTS
    Initialize = initialize
    ToolsList = toolsList
    ToolCalls = {t1}
    NoOne = noOne
    MaxAttempts = 2
    MaxConns = 3
INVARIANTS
    TypeOK
    OneLiveConnection
    RunAgainOnlyIfRefused
    CloseSettlesPending
PROPERTIES
    EverySendReturns
CHECK_DEADLOCK FALSE
