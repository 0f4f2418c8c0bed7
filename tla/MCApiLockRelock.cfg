SPECIFICATION Spec
CONSTANTS
    t1 = t1
    t2 = t2
    timer = timer
    a = a
    b = b
    c = c
    Threads <- MCThreads
    LockGuardThreads = {timer}
    Plugins <- MCPlugins
    Invokes <- MCInvokes
    ReentrantThreads = {t1, timer}
    NoThread = NoThread
    MaxCalls = 3
INVARIANT BodyOwnsLock
CHECK_DEADLOCK FALSE
