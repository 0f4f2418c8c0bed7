SPECIFICATION Spec
CONSTANTS
    Callers = {c1}
    MaxObjects = 2
    MaxEvents = 3
    MaxCalls = 2
INVARIANTS
    NothingLeftBehind
    LiveInstance
    NoneIgnoredInLife
    LastEventLag
CHECK_DEADLOCK FALSE
