SPECIFICATION Spec
CONSTANTS
    Id <- MCId
    Inputs <- MCInputs
    Now <- MCNow
    ManyEdges = 2
    FewEdges = 2
INVARIANTS
    ReturnedFresh
CHECK_DEADLOCK FALSE
