SPECIFICATION Spec
CONSTANTS
    Chats = {c1, c2}
    SubscriberBuffer = 1
    QueueCap = 1
    SSEBuffer = 1
    TurnEvents = 0
    ClientPolicy = "any"
SYMMETRY ChatSymmetry
INVARIANTS
    TypeOK
    SubscribersOpen
CHECK_DEADLOCK FALSE
