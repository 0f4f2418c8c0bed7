SPECIFICATION Spec
CONSTANTS
    Callers = {c1, c2, c3}
    MaxCommands = 4
INVARIANT ResponseLag
PROPERTY CallsReturn
CHECK_DEADLOCK FALSE
