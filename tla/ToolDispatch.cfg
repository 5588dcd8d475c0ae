SPECIFICATION FairSpec
CONSTANTS
    Calls <- MCCalls
    Tools <- MCTools
    ToolOf <- MCToolOf
    Mutating <- MCMutating
    Coerced <- MCCoerced
    Workers = 2
    MaxExact = 2
    MaxSame = 2
    MaxRepeats = 1
    MaxJobs = 4
INVARIANTS
    MutationsBounded
    FailuresBounded
    RunsOnlyAdmitted
PROPERTY DispatchReturns
