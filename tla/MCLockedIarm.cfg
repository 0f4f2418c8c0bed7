SPECIFICATION Spec
CONSTANTS
    b1 = b1
    b2 = b2
    app = app
    Threads <- MCThreads
    BusThreads <- MCBusThreads
    Events = {e1, e2}
    Handlers = {h1, h2}
    Null = Null
    BusMayFail = TRUE
    MaxCalls = 3
    MaxDeliveries = 3
INVARIANT NoNullCall
PROPERTIES
    NoChangeUnderHandler
    EventsHandled
CHECK_DEADLOCK FALSE
