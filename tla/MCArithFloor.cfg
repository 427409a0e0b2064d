SPECIFICATION Spec
CONSTANTS
    Requests <- MCRequests
    Catalog <- MCCatalog
    Web <- MCWeb
    OwnSources <- MCOwnSources
    Registry <- MCRegistry
    Tree <- MCTree
    Now <- MCNow
    MaxAge <- MCMaxAge
    DefaultPublished = 0
    MaxNodes = 16
    MaxDepth = 4
    MaxOperand = 100
    MaxExponent = 3
    Grid = 64
    MinLineages = 2
    SupportMin = 1
    ContradictMin = 2
    NoKey = NoKey
    None = None
    Absent = Absent
    Naive = Naive
    OutOfRange = OutOfRange
    Raised = Raised
    Error = Error
INVARIANTS
    RelationIsExact
CHECK_DEADLOCK FALSE
