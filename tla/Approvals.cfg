SPECIFICATION FairSpec
CONSTANTS
    Requests <- MCRequests
    AutoApproved <- MCAutoApproved
    AutoDenied <- MCAutoDenied
    Reads <- MCReads
    Ruled <- MCRuled
INVARIANTS
    RunsApproved
    RecordMatchesRun
    AnswerStands
PROPERTY HookReturns
