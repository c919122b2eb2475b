CONSTANTS
    Functions = {"f"}
    GivenIds = {"a"}
    NoId = NoId
    Delays = {0, 1}
    Periods = {2}
    Ends = {3, 20}
    Never = 20
    TicksPerSecond = 2
    MaxInstances = 1
    UtcOffset = 3
    MaxCalls = 1
    MaxTime = 7
SPECIFICATION RabbitSpec
INVARIANTS
    RunsWhenAsked
CHECK_DEADLOCK FALSE
