SPECIFICATION Spec
CONSTANTS
    Chats = {c1, c2}
    SubscriberBuffer = 4
    QueueCap = 2
    SSEBuffer = 1
    TurnEvents = 1
    ClientPolicy = "waitEOF"
PROPERTIES
    KeepsChatPromise
    AcceptedIsAnswered
CHECK_DEADLOCK FALSE
