SPECIFICATION FairSpec
CONSTANTS
    Calls <- MCCalls
    Tools <- MCTools
    Reads <- MCReads
    ToolOf <- MCToolOf
    ShapeOf <- MCShapeOf
    Recoverable = {"command_failed", "runtime_error"}
    Fatal = {"hook_blocked"}
    TimeoutType = "runtime_error"
    Shaped = {"command_failed"}
    Profiles <- MCProfiles
    MaxSameTool = 3
    Threshold = 2
    MaxPlan = 2
INVARIANTS
    CallsAnswered
    SessionBudget
    AtMostOnceWrite
    RetriesBounded
    BreakerStopsStreaks
    LeftRunning
PROPERTY RunEnds
