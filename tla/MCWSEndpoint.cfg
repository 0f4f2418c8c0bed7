SPECIFICATION Spec
CONSTANTS
    Connections = {c1, c2, c3}
    None = None
    MaxUnasked = 1
    Settings <- MCSettings
INVARIANTS
    KeepAlive
    OneChainPerConnection
PROPERTIES
    TimeoutClosesOwn
    KeptWhileAnswering
    SettledDestroyReturns
CHECK_DEADLOCK FALSE
