SPECIFICATION Spec
CONSTANTS
    Name <- MCName
    Node <- MCNode
    Formula <- MCFormula
    Calls <- MCCalls
    None = None
    NoProof = NoProof
    NoHash = NoHash
    NoKey = NoKey
    MinLineages = 2
    SupportMin = 1
    ContradictMin = 2
    MaxVars = 2
    MaxDepth = 5
    StackDepth = 4
    MaxNodes = 18
    MaxEvalSteps = 40
INVARIANTS
    SaysWhatIsTrue
    CounterexampleRefutes
    WithinBudget
PROPERTIES
    Settled
CHECK_DEADLOCK FALSE
