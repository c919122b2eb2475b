CONSTANTS
    Functions = {"send_ws_message"}
    GivenIds = {"a"}
    NoId = NoId
    Delays = {0, 1}
    Periods = {2}
    Ends = {3, 6}
    Never = 6
    TicksPerSecond = 2
    MaxInstances = 1
    UtcOffset = 0
    MaxCalls = 2
    MaxTime = 4
SPECIFICATION RabbitSpec
INVARIANTS
    NoJobLost
    EachInstantOnce
    RunsWhenAsked
PROPERTIES
    JobsSettle
CHECK_DEADLOCK FALSE
