SPECIFICATION Spec
CONSTANTS
    Connections = {c1, c2}
    None = None
    MaxUnasked = 1
    Settings <- MCClient
PROPERTY DestroyReturns
CHECK_DEADLOCK FALSE
