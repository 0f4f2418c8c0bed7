SPECIFICATION Spec
CONSTANTS
    c1 = c1
    c2 = c2
    Callers <- MCCallers
    EventLoop = EventLoop
    NoThread = NoThread
    IdModulus = 2
    MaxRequests = 2
    MaxSends = 2
    MaxNotifications = 1
INVARIANTS
    AnswerIsForThisId
    TerminatesOnlyOnRepeatedId
PROPERTIES
    TrueMeansSuccess
    MessagesHandled
    ImplementsRequestCalls
CHECK_DEADLOCK FALSE
