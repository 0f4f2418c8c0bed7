SPECIFICATION MCExpandSpec
CONSTANTS
    Threads = {t1}
    RetryCount = 2
    MaxPanelCalls = 0
    MaxLedCalls = 6
    MaxLedFaults = 1
    MaxTimerCalls = 0
    ControllerCalls = {c1}
    PoolSize = 2
    NoHolder = NoHolder
    Objects <- MCObjects
    Words = {"A", "B", "C"}
    CR = "CR"
    Files <- MCShortFiles
    Strings <- MCExpandStrings
    MaxOpen = 3
    Letters = {"a", "b"}
    Trees <- MCTrees
    Paths <- MCPaths
    Exclusions <- MCExclusions
    ResultCap = 2
    ExpectedObjects = {o1}
    InputValues = {1}
    Descriptions = {}
    MaxValidatorCalls = 0
INVARIANT AllVariablesReplaced
CHECK_DEADLOCK FALSE
