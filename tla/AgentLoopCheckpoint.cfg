SPECIFICATION Spec
CONSTANTS
    Calls <- MCCalls
    Tools <- MCTools
    Reads <- MCReads
    ToolOf <- MCToolOf
    ShapeOf <- MCShapeOf
    Recoverable = {"command_failed"}
    Fatal = {"hook_blocked"}
    TimeoutType = "runtime_error"
    Shaped = {"command_failed"}
    Profiles <- MCProfiles
    MaxSameTool = 3
    Threshold = 2
    MaxPlan = 2
INVARIANT FinalCheckpointRecorded
