SPECIFICATION FairSpec
CONSTANTS
    MaxIterations = 3
    MaxFailures = 2
    MaxStarts = 3
INVARIANT ResumeTakesEffect
