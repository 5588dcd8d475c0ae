SPECIFICATION FairSpec
CONSTANTS
    MaxIterations = 3
    MaxFailures = 2
    MaxStarts = 3
INVARIANTS
    OneRunner
    RunsAccounted
    FailuresBreak
    RunningIsDriven
PROPERTIES
    StopHolds
    TasksEnd
