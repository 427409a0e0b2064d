SPECIFICATION Spec
CONSTANTS
    Id <- MCId
    Inputs <- MCInputs
    Now <- MCNow
    ManyEdges = 5
    FewEdges = 3
INVARIANTS
    SearchPath
    CyclesCut
    UnresolvedExact
    OrderIsTopological
    NoElevation
PROPERTIES
    ImplementsFixpoint
    Termination
CHECK_DEADLOCK FALSE
