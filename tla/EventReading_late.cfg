SPECIFICATION Spec
CONSTANTS
    Awaited = Awaited
    Other = Other
    Done = Done
    Timeouts = {0, 1, 3}
    Millisecond = 2
    MaxTime = 7
    MaxEvents = 2
    MaxCalls = 3
    Prompts = {FALSE}
PROPERTIES RoundtripEnds
CHECK_DEADLOCK FALSE
