SPECIFICATION MCSpec
CONSTANTS
    Threads = {t1, t2, t3}
    RetryCount = 2
    MaxPanelCalls = 5
    MaxLedCalls = 6
    MaxLedFaults = 1
    MaxTimerCalls = 4
    ControllerCalls = {c1, c2, c3}
    PoolSize = 2
    NoHolder = NoHolder
    Objects <- MCObjects
    Words = {"A", "B", "C"}
    CR = "CR"
    Files <- MCFiles
    Strings <- MCStrings
    MaxOpen = 3
    Letters = {"a", "b"}
    Trees <- MCTrees
    Paths <- MCPaths
    Exclusions <- MCExclusions
    ResultCap = 2
    ExpectedObjects = {o1, o2}
    InputValues = {1, 2, 3, 4}
    Descriptions <- MCDescriptions
    MaxValidatorCalls = 4
INVARIANTS
    PanelAccounted
    LedsRestored
    TimerObeysCalls
    TokensAgree
    PropertyResolved
    SearchReports
    EncodedBytes
    ValidatesAsMeant
PROPERTIES
    PeriodicGoesOn
    ControllerCallsReturn
CHECK_DEADLOCK FALSE
