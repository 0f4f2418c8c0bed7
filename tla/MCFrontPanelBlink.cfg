SPECIFICATION Spec
CONSTANTS
    red = red
    green = green
    blue = blue
    Elements <- MCElements
    Patterns <- MCPatterns
    Repeats <- MCRepeats
    Steady = Steady
    Unsure = Unsure
    MaxCalls = 3
    MaxShown = 4
INVARIANTS
    AtMostTwoTicks
    OneElementAfterStop
    OutOfRangeInSetBlink
    TicksOfThePattern
    EndsOnLastElement
PROPERTY BlinkingEnds
CHECK_DEADLOCK FALSE
