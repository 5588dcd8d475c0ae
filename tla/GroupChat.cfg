SPECIFICATION FairSpec
CONSTANTS
    a = a
    b = b
    Agents = {a, b}
    Groups <- MCGroups
    Decompositions <- MCDecompositions
    MaxTasks = 4
    Nobody = Nobody
INVARIANTS
    SynthesisIsComplete
    SharedHoldsResults
PROPERTIES
    ChatEnds
    KeepsSchedule
