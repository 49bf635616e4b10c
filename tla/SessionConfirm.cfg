SPECIFICATION Spec
CONSTANTS
    Chats = {c1, c2}
    SubscriberBuffer = 4
    QueueCap = 2
    SSEBuffer = 2
    TurnEvents = 1
    ClientPolicy = "waitDone"
INVARIANTS
    ConfirmedByUser
CHECK_DEADLOCK FALSE
