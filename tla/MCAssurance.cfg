SPECIFICATION Spec
CONSTANTS
    p1 = p1
    p2 = p2
    p3 = p3
    Provider <- MCProvider
    Requests <- MCRequests
    Replies <- MCReplies
    Records <- MCRecords
    TickerCik = 1
    Key = {k1, k2}
    None = None
    Unreadable = {bad}
    NoProof = NoProof
    NoHash = NoHash
    NotFinite = NotFinite
    Whole = 2
    Limit = 9
    NoKey = NoKey
    MinLineages = 2
    SupportMin = 1
    ContradictMin = 2
INVARIANTS
    EgressWithinDecision
    TextIsNeverReleased
    DefinitiveIsReviewed
    ReceiptShowsAlteration
PROPERTIES
    ComesToADecision
CHECK_DEADLOCK FALSE
